---- MODULE Spec2Model ----
(***************************************************************************)
(* The connection pool of pkg/sqlite3 (pool.go, the atomic-counter Pool):  *)
(* OpenPool, Get, Put, SetMax, Close, the per-lease background goroutine   *)
(* and the private put.                                                    *)
(*                                                                         *)
(* Callers are independent goroutines, one request each, written as the    *)
(* handlers of the repository are: Get, return if it is nil, use the       *)
(* connection, Put once (or not at all).  A channel made by Get is named   *)
(* by the caller whose Get made it.  A panic ends the goroutine that       *)
(* raised it (position "panic").                                           *)
(*                                                                         *)
(* Steps are the atomic operations of the code.  Consecutive operations    *)
(* are one step only where no other goroutine can tell the difference:     *)
(* the sync.Pool is read by Pool.Get alone, which may miss any element;    *)
(* conn.c is read by Put alone, whose send ends in the same panic on a     *)
(* channel closed before the send and on one closed while it waits (so     *)
(* the select's choice, close(conn.c) and conn.c = nil are one step).      *)
(***************************************************************************)
EXTENDS Integers, FiniteSets, Sequences

\* Number of caller goroutines (requests) that use the pool.
NCallers == 2
\* Largest maximum a configuration or SetMax asks for.
MaxArg == 1

\* Largest capacity of the channel given to OpenPool as errs.
SinkCap == 1

\* Largest number of schemas a configuration maps besides the default schema.
MaxSchemas == 2

\* Largest number of statements in a text given to Prepare.
MaxStmts == 2
\* Number of goroutines that call Exec and Close on one StatementEx.
NUsers == 2
\* Largest number of rows a statement produces.
MaxRows == 2
\* Largest number of arguments given to to_values.
MaxBind == 2
\* Number of goroutines that call QuoteIdentifier.
NQuoters == 2
\* Largest number of statements a txn holds.
MaxTxnStmts == 2
\* Largest number of calls of Query and Exec that reach the connection of a txn.
MaxTxnCalls == 2

\* defaultPoolConfig.Max
DefaultMax == 5

\* Strings are sequences of characters.  The default schema's name, and the
\* path that stands for an in-memory store.
defaultSchema == <<"m", "a", "i", "n">>
defaultMemory == "mem"

\* The keys a configuration's Schemas may hold besides the default schema:
\* "ab", "1bad", "a", " ab" and "a-1".
SchemaNames == {<<"a", "b">>, <<"1", "b", "a", "d">>, <<"a">>, <<" ", "a", "b">>,
                <<"a", "-", "1">>}
\* The paths a configuration maps a schema to.
Paths == {"", defaultMemory}

Callers == 1..NCallers
\* Every Get constructs at most one connection and OpenPool constructs one.
Conns == 1..(NCallers + 1)
\* conn.c == nil, and "no connection" (a nil *Conn / nil SQConnection).
Nil == 0
None == 0
\* PoolConfig.Max as given by the caller of OpenPool, and the arguments of SetMax.
MaxArgs == (-1)..MaxArg

VARIABLES
    phase,      \* "init": before OpenPool; "open": OpenPool returned a pool; "failed": it returned an error
    cfgValid,   \* whether OpenPath succeeds on the path of the default schema
    max,        \* config.Max, then p.PoolConfig.Max
    n,          \* p.n
    idle,       \* the connections held by the embedded sync.Pool
    handle,     \* per connection: "none" (not constructed), "open", "closed"
    connC,      \* per connection: conn.c, Nil or the channel made for a lease
    chClosed,   \* the channels that have been closed
    poolDone,   \* p.ctx is cancelled
    wg,         \* the counter of the embedded sync.WaitGroup
    pc,         \* per caller: position in Get / Put
    cur,        \* per caller: the value p.Cur() returned in Get
    got,        \* per caller: the connection Get took and returned
    ctxDone,    \* per caller: the ctx passed to Get is cancelled
    putCh,      \* per caller: the channel value Put read from conn.c
    wpc,        \* per lease: position of the background goroutine started by Get
    wn,         \* per lease: the local n of put (the count after the decrement)
    nreclaim,   \* per lease: number of times put has been entered for it
    apc,        \* position of the goroutine that calls Close
    lowered,    \* history: the latest SetMax called by a user of the pool stored a maximum below the count
    errsNil,    \* p.errs is nil (OpenPool was given no channel)
    errsCap,    \* capacity of the channel p.errs (0: unbuffered)
    errsLen,    \* number of errors in the buffer of p.errs
    errsRecv,   \* a goroutine is parked in a receive from p.errs
    delivered,  \* history: the number of errors p.err has sent on p.errs
    schemas,    \* p.Schemas: a map from schema names to paths
    connLog,    \* per connection: the engine calls and rejections of its construction, in order
    connErr,    \* per connection: the errors its construction collected, in order
    openErr,    \* the error OpenPool returned (empty: nil)
    text,       \* the SQL text given to ConnEx.Prepare, a sequence of tokens
    spc,        \* "start": before Prepare; "prepared": it returned a StatementEx; "failed": it returned an error; "closed": Close has returned; "collected" / "reported": the StatementEx is unreachable and its finalizer has returned / has panicked
    st,         \* s.st: the statement handles of the StatementEx, in order
    hst,        \* per statement handle of the engine: "none" (not compiled), "open", "finalized"
    lastOps,    \* the calls on statement handles made by the latest Exec or Close, in order
    ret,        \* what the latest call on the ConnEx / StatementEx returned
    nfin,       \* per statement handle: the number of calls of Finalize on it
    hbind,      \* per statement handle: its parameter bindings, 0 when nothing is bound (every parameter NULL), 1 when the values of an Exec are bound
    closeErr,   \* the errors the latest Close collected: the handles whose Finalize failed, in order
    mu,         \* the sync.Mutex of the StatementEx: 0 when unlocked, else the goroutine that locked it
    upc,        \* per goroutine that uses the StatementEx: its position in Exec / Close
    ucall,      \* per goroutine: the call it is making (Exec or Close) and, once Exec has read it, the index n
    uhs,        \* per goroutine: Exec's local st (one handle), Close's handles still to range over
    rs,         \* the *Results the latest Exec returned (NoResults for nil): handle, status of its last step, rows read
    nextRet,    \* what the latest Next on rs returned: "unread" before the first call, "row", "none", "error"
    bargs,      \* the args given to to_values: each a Go value, its dynamic type and its content
    bvals,      \* what to_values returned: whether it was called, the values, the error
    reservedWords, \* the package variable reservedWords: the keys of the map
    qpc,        \* per goroutine: its position in isReservedWord
    qfill,      \* per goroutine: the words its range loop has still to store
    qval,       \* per goroutine: the value given to isReservedWord
    qret,       \* per goroutine: what its latest isReservedWord returned
    qdone,      \* history: a call of isReservedWord has returned
    qlate,      \* history: the map was written after a call of isReservedWord had returned
    qfatal,     \* the runtime has stopped the process (concurrent map access)
    tconn,      \* txn.conn: "nil" or "conn"
    tst,        \* txn.st: the statements the txn holds
    tinner,     \* txn.inner
    tclosed,    \* per statement of a txn: how many times Close was called on it
    tconnClosed, \* how many times Close was called on the connection of the txn
    tuse,       \* how many calls of Query and Exec reached the connection of the txn
    tret,       \* what the latest call on the txn returned
    tdone       \* history: Destroy has run on the txn

vars == <<phase, cfgValid, max, n, idle, handle, connC, chClosed, poolDone, wg,
          pc, cur, got, ctxDone, putCh, wpc, wn, nreclaim, apc, lowered,
          errsNil, errsCap, errsLen, errsRecv, delivered,
          schemas, connLog, connErr, openErr,
          text, spc, st, hst, hbind, lastOps, ret, nfin, closeErr,
          mu, upc, ucall, uhs, rs, nextRet, bargs, bvals,
          reservedWords, qpc, qfill, qval, qret, qdone, qlate, qfatal,
          tconn, tst, tinner, tclosed, tconnClosed, tuse, tret, tdone>>

poolVars == <<max, n, idle, handle, connC, chClosed, poolDone, wg>>
callerVars == <<pc, cur, got, putCh>>
waiterVars == <<wpc, wn, nreclaim>>
cfgVars == <<phase, cfgValid>>
sinkVars == <<errsNil, errsCap, errsLen, errsRecv, delivered>>
schemaVars == <<schemas, connLog, connErr, openErr>>
userVars == <<mu, upc, ucall, uhs>>
cursorVars == <<rs, nextRet>>
bindVars == <<bargs, bvals>>
wordVars == <<reservedWords, qpc, qfill, qval, qret, qdone, qlate, qfatal>>
txnVars == <<tconn, tst, tinner, tclosed, tconnClosed, tuse, tret, tdone>>
stmtVars == <<text, spc, st, hst, hbind, lastOps, ret, nfin, closeErr, mu, upc, ucall, uhs, rs, nextRet,
              bargs, bvals,
              reservedWords, qpc, qfill, qval, qret, qdone, qlate, qfatal,
          tconn, tst, tinner, tclosed, tconnClosed, tuse, tret, tdone>>
poolSide == <<phase, cfgValid, max, n, idle, handle, connC, chClosed, poolDone, wg,
              pc, cur, got, ctxDone, putCh, wpc, wn, nreclaim, apc, lowered,
              errsNil, errsCap, errsLen, errsRecv, delivered,
              schemas, connLog, connErr, openErr>>

maxInt32(a, b) == IF a > b THEN a ELSE b

\* CoerceMax without the default for a zero maximum.
CoerceMaxNoDefault(m) == maxInt32(m, 1)

\* OpenPool, lines 83-89: the maximum the pool starts with.
CoerceMax(m) == IF m = 0 THEN DefaultMax ELSE maxInt32(m, 1)

\* The connection object a construction (p.new) yields: one not constructed before.
Fresh == CHOOSE k \in Conns : handle[k] = "none" /\ \A j \in Conns : handle[j] = "none" => k <= j

\* The pool and its callers before OpenPool is called.
InitPool ==
    /\ phase = "init"
    /\ cfgValid \in BOOLEAN
    /\ max \in MaxArgs
    /\ n = 0
    /\ idle = {}
    /\ handle = [k \in Conns |-> "none"]
    /\ connC = [k \in Conns |-> Nil]
    /\ chClosed = {}
    /\ poolDone = FALSE
    /\ wg = 0
    /\ pc = [c \in Callers |-> "start"]
    /\ cur = [c \in Callers |-> 0]
    /\ got = [c \in Callers |-> None]
    /\ ctxDone = [c \in Callers |-> FALSE]
    /\ putCh = [c \in Callers |-> Nil]
    /\ wpc = [c \in Callers |-> "none"]
    /\ wn = [c \in Callers |-> 0]
    /\ nreclaim = [c \in Callers |-> 0]
    /\ apc = "start"
    /\ lowered = FALSE
    /\ connLog = [k \in Conns |-> <<>>]
    /\ connErr = [k \in Conns |-> <<>>]
    /\ openErr = <<>>

\* defaultPoolConfig.Schemas: the default schema alone, in memory.
SchemasDefault == schemas = [s \in {defaultSchema} |-> defaultMemory]

\* Any Schemas: the default schema missing or mapped to any path, and up to
\* MaxSchemas further keys mapped to any paths.
SchemasAny ==
    \E K \in SUBSET SchemaNames, D \in SUBSET {defaultSchema} :
       /\ Cardinality(K) <= MaxSchemas
       /\ schemas \in [K \cup D -> Paths]

\* OpenPool is given nil as errs.
SinkNil ==
    /\ errsNil = TRUE /\ errsCap = 0 /\ errsLen = 0 /\ errsRecv = FALSE
    /\ delivered = 0

\* OpenPool is given nil or a channel as errs; the channel has any capacity and
\* may hold errors of its other senders.
SinkAny ==
    /\ errsNil \in BOOLEAN
    /\ errsCap \in (IF errsNil THEN {0} ELSE 0..SinkCap)
    /\ errsLen \in 0..errsCap
    /\ errsRecv = FALSE
    /\ delivered = 0

\* The tokens of a text: the i-th statement, one that compiles ("s1", ...) or
\* one that does not ("x1", ...), the separator ";" and the space.
StmtToken(i) == <<"s1", "s2", "s3", "s4">>[i]
BadToken(i) == <<"x1", "x2", "x3", "x4">>[i]
Handles == {StmtToken(i) : i \in 1..MaxStmts}
BadTokens == {BadToken(i) : i \in 1..MaxStmts}

\* The text of the statements ss: each but the last is followed by sep, the
\* last by tail.
RECURSIVE Render(_, _, _)
Render(ss, sep, tail) ==
    IF ss = <<>> THEN <<>>
    ELSE IF Len(ss) = 1 THEN <<Head(ss)>> \o tail
    ELSE <<Head(ss)>> \o sep \o Render(Tail(ss), sep, tail)

\* The texts given to Prepare: up to MaxStmts statements, each one compiling
\* or not, separated by ";" or "; ", the last one followed by nothing, ";" or "; ".
Texts ==
    {Render([i \in 1..k |-> IF i \in B THEN BadToken(i) ELSE StmtToken(i)], sep, tail) :
        k \in 0..MaxStmts, B \in SUBSET (1..MaxStmts),
        sep \in {<<";">>, <<";", " ">>}, tail \in {<<>>, <<";">>, <<";", " ">>}}

\* The dynamic types of the values given to to_values; "struct" stands for
\* any type the switch does not name.
GoTypes == {"nil", "int", "int8", "int16", "int32", "int64",
            "uint", "uint8", "uint16", "uint32", "uint64",
            "float32", "float64", "string", "bool", "[]byte", "time.Time", "struct"}

\* Go values: a dynamic type and one of two contents (nil has one).
GoValues == {[t |-> "nil", v |-> 0]} \cup [t : GoTypes \ {"nil"}, v : {0, 1}]

\* The argument lists given to to_values.
ArgLists == UNION {[1..k -> GoValues] : k \in 0..MaxBind}

\* The goroutines that call QuoteIdentifier.
Quoters == 1..NQuoters

\* strings.Fields(reserved_words), shortened to two of its words.
reserved_words == <<"SELECT", "TABLE">>

\* The values given to QuoteIdentifier.
Identifiers == {"select", " Table ", "name"}

\* strings.TrimSpace(strings.ToUpper(value)) on the values of Identifiers.
UpperTrim(value) ==
    IF value = "select" THEN "SELECT"
    ELSE IF value = " Table " THEN "TABLE"
    ELSE "NAME"

\* The package is initialized (reservedWords = make(map[string]bool, 0)) and
\* no goroutine is in isReservedWord.
WordsInit ==
    /\ reservedWords = {}
    /\ qpc = [g \in Quoters |-> "idle"]
    /\ qfill = [g \in Quoters |-> <<>>]
    /\ qval = [g \in Quoters |-> "name"]
    /\ qret = [g \in Quoters |-> FALSE]
    /\ qdone = FALSE
    /\ qlate = FALSE
    /\ qfatal = FALSE

\* The statements a txn can hold.
TxnStmts == 1..MaxTxnStmts

\* The argument lists given to Query and Exec of a txn.
TxnArgs == UNION {[1..k -> GoValues] : k \in 0..1}

\* No txn is in use: the zero value of the struct.
TxnNone ==
    /\ tconn = "nil"
    /\ tst = <<>>
    /\ tinner = FALSE
    /\ tclosed = [s \in TxnStmts |-> 0]
    /\ tconnClosed = 0
    /\ tuse = 0
    /\ tret = [op |-> "none", err |-> "nil"]
    /\ tdone = FALSE

\* A txn after Init(conn, inner), lines 27-34, holding any number of
\* statements in st.
TxnAny ==
    /\ tconn = "conn"
    /\ tst \in {[i \in 1..k |-> i] : k \in 0..MaxTxnStmts}
    /\ tinner \in BOOLEAN
    /\ tclosed = [s \in TxnStmts |-> 0]
    /\ tconnClosed = 0
    /\ tuse = 0
    /\ tret = [op |-> "Init", err |-> "nil"]
    /\ tdone = FALSE

\* to_values has not been called.
NotCalled == [called |-> FALSE, v |-> <<>>, err |-> "nil"]
BindNone == bargs = <<>> /\ bvals = NotCalled

\* to_values is about to be called with any argument list.
BindAny == bargs \in ArgLists /\ bvals = NotCalled

\* A nil *Results.
NoResults == [st |-> "", err |-> "none", n |-> 0]

\* The goroutines that use the StatementEx, none of them in a call.
StmtUsers == 1..NUsers
UsersIdle ==
    /\ mu = 0
    /\ upc = [u \in StmtUsers |-> "idle"]
    /\ ucall = [u \in StmtUsers |-> [op |-> "none", n |-> 0]]
    /\ uhs = [u \in StmtUsers |-> <<>>]

\* No ConnEx is in use.
StmtIdle ==
    /\ text = <<>>
    /\ spc = "start"
    /\ st = <<>>
    /\ hst = [h \in Handles |-> "none"]
    /\ hbind = [h \in Handles |-> 0]
    /\ lastOps = <<>>
    /\ ret = [op |-> "none", n |-> 0, cursor |-> FALSE, err |-> "nil"]
    /\ nfin = [h \in Handles |-> 0]
    /\ closeErr = <<>>
    /\ UsersIdle
    /\ rs = NoResults
    /\ nextRet = "unread"

\* No ConnEx is in use and to_values is not called.
StmtNone == StmtIdle /\ BindNone /\ WordsInit /\ TxnNone

\* A ConnEx before Prepare is called with any text.
StmtAny ==
    /\ text \in Texts
    /\ spc = "start"
    /\ st = <<>>
    /\ hst = [h \in Handles |-> "none"]
    /\ hbind = [h \in Handles |-> 0]
    /\ lastOps = <<>>
    /\ ret = [op |-> "none", n |-> 0, cursor |-> FALSE, err |-> "nil"]
    /\ nfin = [h \in Handles |-> 0]
    /\ closeErr = <<>>
    /\ UsersIdle
    /\ rs = NoResults
    /\ nextRet = "unread"
    /\ BindNone
    /\ WordsInit
    /\ TxnNone

Init == InitPool /\ SinkNil /\ SchemasDefault /\ StmtNone

\* p.errs can take an error now: a receiver is parked or the buffer has room.
errsReady == ~errsNil /\ (errsRecv \/ errsLen < errsCap)

\* A plain send on p.errs, which waits until the channel can take the error.
errBlocking ==
    /\ errsReady
    /\ IF errsRecv
       THEN errsRecv' = FALSE /\ UNCHANGED errsLen
       ELSE errsLen' = errsLen + 1 /\ UNCHANGED errsRecv
    /\ delivered' = delivered + 1
    /\ UNCHANGED <<errsNil, errsCap>>

\* p.err without the send.
errNoSend == UNCHANGED sinkVars

\* p.err, lines 324-331: select { case p.errs <- err: default: }.  The send is
\* taken when the channel can take the error (it goes to the parked receiver or
\* into the buffer); on a nil channel, a full buffer or an unbuffered channel with
\* no receiver the default case returns.
err ==
    /\ IF errsReady
       THEN /\ IF errsRecv
               THEN errsRecv' = FALSE /\ UNCHANGED errsLen
               ELSE errsLen' = errsLen + 1 /\ UNCHANGED errsRecv
            /\ delivered' = delivered + 1
       ELSE UNCHANGED <<errsLen, errsRecv, delivered>>
    /\ UNCHANGED <<errsNil, errsCap>>

\* The reader of the channel given as errs executes a receive: it takes an error
\* of the buffer or parks.
SinkRecv ==
    /\ ~errsNil
    /\ ~errsRecv
    /\ IF errsLen > 0
       THEN errsLen' = errsLen - 1 /\ UNCHANGED errsRecv
       ELSE errsRecv' = TRUE /\ UNCHANGED errsLen
    /\ UNCHANGED <<errsNil, errsCap, delivered, ctxDone, apc, lowered>>
    /\ UNCHANGED poolVars
    /\ UNCHANGED cfgVars
    /\ UNCHANGED callerVars
    /\ UNCHANGED waiterVars
    /\ UNCHANGED schemaVars
    /\ UNCHANGED stmtVars

\* strings.TrimSpace, line 258 (the space is the only white space of SchemaNames).
RECURSIVE TrimLeft(_)
TrimLeft(s) == IF s # <<>> /\ Head(s) = " " THEN TrimLeft(Tail(s)) ELSE s
RECURSIVE TrimRight(_)
TrimRight(s) == IF s # <<>> /\ s[Len(s)] = " " THEN TrimRight(SubSeq(s, 1, Len(s) - 1)) ELSE s
TrimSpace(s) == TrimRight(TrimLeft(s))

\* The characters of the names used.
Letters == {"a", "b", "d", "i", "m", "n"}
Digits == {"1"}
\* reSchemaName without the constraint on the first character.
reSchemaNameAnyFirst(s) ==
    /\ Len(s) >= 2
    /\ \A i \in 1..Len(s) : s[i] \in Letters \cup Digits \cup {"_", "-"}

\* reSchemaName, "^[a-zA-Z][a-zA-Z0-9_-]+$".
reSchemaNameMatch(s) ==
    /\ Len(s) >= 2
    /\ s[1] \in Letters
    /\ \A i \in 2..Len(s) : s[i] \in Letters \cup Digits \cup {"_", "-"}

\* pathForSchema, lines 311-321: "" when the name is not valid or not mapped.
pathForSchema(schema) ==
    LET name == IF schema = <<>> THEN defaultSchema ELSE schema IN
    IF ~reSchemaNameMatch(name) THEN ""
    ELSE IF name \notin DOMAIN schemas THEN ""
    ELSE schemas[name]

\* An entry of a construction's log: a call of the engine (OpenPath on the
\* default schema, ATTACH of another one) with its outcome, or the rejection
\* of a schema without a call of the engine.
EngineCall(op, schema, path, ok) == [op |-> op, schema |-> schema, path |-> path, ok |-> ok]
Rejected(schema) == [op |-> "reject", schema |-> schema, path |-> "", ok |-> FALSE]

\* The errors of a construction.
ErrNotFound(schema) == [code |-> "ErrNotFound", schema |-> schema]
ErrBadParameter(schema) == [code |-> "ErrBadParameter", schema |-> schema]
EngineError(schema) == [code |-> "engine", schema |-> schema]

\* attach, lines 335-353; ok is whether the store can be made and the engine
\* attaches it.
attach(schema, path, ok) ==
    IF schema = <<>>
    THEN [log |-> <<Rejected(schema)>>, err |-> <<ErrBadParameter(schema)>>]
    ELSE [log |-> <<EngineCall("attach", schema, IF path = "" THEN defaultMemory ELSE path, ok)>>,
          err |-> IF ok THEN <<>> ELSE <<EngineError(schema)>>]

\* The order in which range p.Schemas yields the keys, and the outcomes of
\* the engine's attaches by key.
Orders ==
    LET K == DOMAIN schemas IN
    {o \in [1..Cardinality(K) -> K] : \A i, j \in 1..Cardinality(K) : o[i] = o[j] => i = j}
Outcomes ==
    [{k \in DOMAIN schemas :
         TrimSpace(k) # defaultSchema /\ pathForSchema(TrimSpace(k)) # ""} -> BOOLEAN]

\* The loop of new that ends at the first schema that fails.
RECURSIVE attachUntilError(_, _)
attachUntilError(order, oks) ==
    IF order = <<>> THEN [log |-> <<>>, err |-> <<>>]
    ELSE LET schema == TrimSpace(Head(order))
             path == pathForSchema(schema)
             this == IF schema = defaultSchema THEN [log |-> <<>>, err |-> <<>>]
                     ELSE IF path = ""
                     THEN [log |-> <<Rejected(schema)>>, err |-> <<ErrBadParameter(schema)>>]
                     ELSE attach(schema, path, oks[Head(order)])
             rest == IF this.err # <<>> THEN [log |-> <<>>, err |-> <<>>]
                     ELSE attachUntilError(Tail(order), oks)
         IN  [log |-> this.log \o rest.log, err |-> this.err \o rest.err]

\* new, lines 255-268: the loop over p.Schemas, with the combined error.
RECURSIVE attachAll(_, _)
attachAll(order, oks) ==
    IF order = <<>> THEN [log |-> <<>>, err |-> <<>>]
    ELSE LET schema == TrimSpace(Head(order))
             path == pathForSchema(schema)
             rest == attachAll(Tail(order), oks)
         IN  IF schema = defaultSchema THEN rest
             ELSE IF path = ""
             THEN [log |-> <<Rejected(schema)>> \o rest.log,
                   err |-> <<ErrBadParameter(schema)>> \o rest.err]
             ELSE LET a == attach(schema, path, oks[Head(order)])
                  IN  [log |-> a.log \o rest.log, err |-> a.err \o rest.err]

\* new without the test of the default schema's path.
newNoDefaultCheck(order, oks) ==
    LET r == attachAll(order, oks) IN
    [conn |-> r.err = <<>>, opened |-> TRUE,
     log |-> <<EngineCall("open", defaultSchema, pathForSchema(defaultSchema), TRUE)>> \o r.log,
     err |-> r.err]

\* new, lines 228-289.  conn: a connection is returned; opened: OpenPath gave a
\* handle (which new does not close when an attach fails).
new(order, oks) ==
    LET defaultPath == pathForSchema(defaultSchema) IN
    IF defaultPath = ""
    THEN [conn |-> FALSE, opened |-> FALSE, log |-> <<>>,
          err |-> <<ErrNotFound(defaultSchema)>>]
    ELSE IF ~cfgValid
    THEN [conn |-> FALSE, opened |-> FALSE,
          log |-> <<EngineCall("open", defaultSchema, defaultPath, FALSE)>>,
          err |-> <<EngineError(defaultSchema)>>]
    ELSE LET r == attachAll(order, oks) IN
         [conn |-> r.err = <<>>, opened |-> TRUE,
          log |-> <<EngineCall("open", defaultSchema, defaultPath, TRUE)>> \o r.log,
          err |-> r.err]

\* OpenPool: coerce config.Max, construct one connection with p.new and put it in
\* the sync.Pool; if p.new fails, return the error and no pool.
OpenPool ==
    /\ phase = "init"
    /\ \E order \in Orders, oks \in Outcomes :
          LET r == new(order, oks) IN
          /\ openErr' = r.err
          /\ connLog' = [connLog EXCEPT ![Fresh] = r.log]
          /\ connErr' = [connErr EXCEPT ![Fresh] = r.err]
          /\ handle' = [handle EXCEPT ![Fresh] = IF r.opened THEN "open" ELSE @]
          /\ IF r.conn
             THEN /\ phase' = "open"
                  /\ max' = CoerceMax(max)
                  /\ idle' = {Fresh}
             ELSE /\ phase' = "failed"
                  /\ UNCHANGED <<max, idle>>
    /\ UNCHANGED <<cfgValid, n, connC, chClosed, poolDone, wg, ctxDone, apc>>
    /\ UNCHANGED callerVars
    /\ UNCHANGED waiterVars
    /\ UNCHANGED lowered
    /\ UNCHANGED sinkVars
    /\ UNCHANGED schemas
    /\ UNCHANGED stmtVars

\* Max and Cur: the atomic loads of lines 160 and 172.
Max == max
Cur == n

\* SetMax storing its argument without the floor of 0.
SetMaxNoFloor(v) ==
    /\ phase = "open"
    /\ max' = v
    /\ UNCHANGED <<n, idle, handle, connC, chClosed, poolDone, wg, ctxDone, apc>>
    /\ UNCHANGED cfgVars
    /\ UNCHANGED callerVars
    /\ UNCHANGED waiterVars
    /\ lowered' = (v < n)
    /\ UNCHANGED sinkVars
    /\ UNCHANGED schemaVars
    /\ UNCHANGED stmtVars

\* SetMax(v): one atomic store of maxInt32(v, 0).
SetMax(v) ==
    /\ phase = "open"
    /\ max' = maxInt32(v, 0)
    /\ UNCHANGED <<n, idle, handle, connC, chClosed, poolDone, wg, ctxDone, apc>>
    /\ UNCHANGED cfgVars
    /\ UNCHANGED callerVars
    /\ UNCHANGED waiterVars
    /\ lowered' = (maxInt32(v, 0) < n)
    /\ UNCHANGED sinkVars
    /\ UNCHANGED schemaVars
    /\ UNCHANGED stmtVars

\* Get, line 180, left operand: the caller enters Get and loads p.Cur().
\* Callers are interchangeable: they are numbered in the order they call Get.
GetLoadCur(c) ==
    /\ phase = "open"
    /\ pc[c] = "start"
    /\ \A d \in Callers : d < c => pc[d] # "start"
    /\ pc' = [pc EXCEPT ![c] = "get_check"]
    /\ cur' = [cur EXCEPT ![c] = Cur]
    /\ UNCHANGED <<got, putCh, ctxDone, apc>>
    /\ UNCHANGED poolVars
    /\ UNCHANGED cfgVars
    /\ UNCHANGED waiterVars
    /\ UNCHANGED lowered
    /\ UNCHANGED sinkVars
    /\ UNCHANGED schemaVars
    /\ UNCHANGED stmtVars

\* The comparison of line 180 written with > for >=.
ExhaustedStrict(c) == cur[c] > max

\* The comparison of line 180 on the loaded count and the maximum loaded now.
Exhausted(c) == cur[c] >= Max

\* Get, lines 180-183: load p.Max() and compare; when exhausted report the error
\* (p.err never blocks) and return nil.
GetCheck(c) ==
    /\ pc[c] = "get_check"
    /\ pc' = [pc EXCEPT ![c] = IF Exhausted(c) THEN "ret_none" ELSE "get_pool"]
    /\ cur' = [cur EXCEPT ![c] = 0]
    /\ UNCHANGED <<got, putCh, ctxDone, apc>>
    /\ UNCHANGED poolVars
    /\ UNCHANGED cfgVars
    /\ UNCHANGED waiterVars
    /\ UNCHANGED lowered
    /\ IF Exhausted(c) THEN err ELSE UNCHANGED sinkVars
    /\ UNCHANGED schemaVars
    /\ UNCHANGED stmtVars

\* Get, lines 186-194: p.Pool.Get() yields a connection of the sync.Pool or, when
\* the sync.Pool finds none for this goroutine (k = None), one constructed by New;
\* a connection that still carries a channel panics; atomic.AddInt32(&p.n, 1);
\* conn.c = make(chan struct{}).
GetTake(c) ==
    /\ pc[c] = "get_pool"
    /\ \E k \in idle \cup {None}, order \in Orders, oks \in Outcomes :
          LET conn == IF k = None THEN Fresh ELSE k
              r == new(order, oks)
          IN  IF k = None /\ ~r.conn
              THEN /\ handle' = [handle EXCEPT ![conn] = IF r.opened THEN "open" ELSE @]
                   /\ connLog' = [connLog EXCEPT ![conn] = r.log]
                   /\ connErr' = [connErr EXCEPT ![conn] = r.err]
                   /\ err
                   /\ pc' = [pc EXCEPT ![c] = "panic"]
                   /\ UNCHANGED <<idle, got, n, connC>>
              ELSE /\ idle' = idle \ {k}
                   /\ handle' = [handle EXCEPT ![conn] = "open"]
                   /\ IF k = None
                      THEN /\ connLog' = [connLog EXCEPT ![conn] = r.log]
                           /\ connErr' = [connErr EXCEPT ![conn] = r.err]
                      ELSE UNCHANGED <<connLog, connErr>>
                   /\ got' = [got EXCEPT ![c] = conn]
                   /\ IF connC[conn] # Nil
                      THEN /\ pc' = [pc EXCEPT ![c] = "panic"]
                           /\ UNCHANGED <<n, connC>>
                      ELSE /\ pc' = [pc EXCEPT ![c] = "get_spawn"]
                           /\ n' = n + 1
                           /\ connC' = [connC EXCEPT ![conn] = c]
                   /\ UNCHANGED sinkVars
    /\ UNCHANGED <<max, chClosed, poolDone, wg>>
    /\ UNCHANGED <<cur, putCh, ctxDone, apc>>
    /\ UNCHANGED cfgVars
    /\ UNCHANGED waiterVars
    /\ UNCHANGED lowered
    /\ UNCHANGED <<schemas, openErr>>
    /\ UNCHANGED stmtVars

\* Get, lines 197-211: WaitGroup.Add(1), start the background goroutine (it
\* evaluates its select when it runs), return the connection.
GetSpawn(c) ==
    /\ pc[c] = "get_spawn"
    /\ wg' = wg + 1
    /\ wpc' = [wpc EXCEPT ![c] = "select"]
    /\ pc' = [pc EXCEPT ![c] = "user"]
    /\ UNCHANGED <<max, n, idle, handle, connC, chClosed, poolDone>>
    /\ UNCHANGED <<cur, got, putCh, ctxDone, apc>>
    /\ UNCHANGED <<wn, nreclaim>>
    /\ UNCHANGED cfgVars
    /\ UNCHANGED lowered
    /\ UNCHANGED sinkVars
    /\ UNCHANGED schemaVars
    /\ UNCHANGED stmtVars

\* The caller's cancel-scope fires.  The scope is read by the select of the
\* background goroutine alone (line 201): a scope cancelled earlier, even before
\* Get is called, acts as one cancelled once the goroutine is parked, and one
\* cancelled after the select has chosen acts on nothing.
CtxCancel(c) ==
    /\ wpc[c] = "select"
    /\ ~ctxDone[c]
    /\ ctxDone' = [ctxDone EXCEPT ![c] = TRUE]
    /\ UNCHANGED apc
    /\ UNCHANGED poolVars
    /\ UNCHANGED cfgVars
    /\ UNCHANGED callerVars
    /\ UNCHANGED waiterVars
    /\ UNCHANGED lowered
    /\ UNCHANGED sinkVars
    /\ UNCHANGED schemaVars
    /\ UNCHANGED stmtVars

\* Put, line 217, operand: the caller loads conn.c (unsynchronised with put).
PutLoad(c) ==
    /\ pc[c] = "user"
    /\ putCh' = [putCh EXCEPT ![c] = connC[got[c]]]
    /\ pc' = [pc EXCEPT ![c] = "put_send"]
    /\ UNCHANGED <<cur, got, ctxDone, apc>>
    /\ UNCHANGED poolVars
    /\ UNCHANGED cfgVars
    /\ UNCHANGED waiterVars
    /\ UNCHANGED lowered
    /\ UNCHANGED sinkVars
    /\ UNCHANGED schemaVars
    /\ UNCHANGED stmtVars

\* put without the assignment of line 298.
NotCleared(k) == connC

\* put, line 298: conn.c = nil.
Cleared(k) == [connC EXCEPT ![k] = Nil]

\* put, lines 292-298, entered by the background goroutine of lease c: panic
\* when conn.c is nil (the panic unwinds through the deferred WaitGroup.Done),
\* else close(conn.c); conn.c = nil.
putClose(c) ==
    /\ nreclaim' = [nreclaim EXCEPT ![c] = @ + 1]
    /\ IF connC[got[c]] = Nil
       THEN /\ wpc' = [wpc EXCEPT ![c] = "panic"]
            /\ wg' = wg - 1
            /\ UNCHANGED <<chClosed, connC>>
       ELSE /\ wpc' = [wpc EXCEPT ![c] = "put_add"]
            /\ chClosed' = chClosed \cup {connC[got[c]]}
            /\ connC' = Cleared(got[c])
            /\ UNCHANGED wg
    /\ UNCHANGED <<max, n, idle, handle, poolDone, wn>>

\* Put, line 217: the send on the unbuffered channel completes when the goroutine
\* that selects on this channel receives (lines 203-204) and calls put; Put
\* returns.  A send on a nil channel never completes.
PutSend(c) ==
    /\ pc[c] = "put_send"
    /\ putCh[c] # Nil
    /\ putCh[c] \notin chClosed
    /\ wpc[putCh[c]] = "select"
    /\ putClose(putCh[c])
    /\ putCh' = [putCh EXCEPT ![c] = Nil]
    /\ pc' = [pc EXCEPT ![c] = "put_ret"]
    /\ UNCHANGED <<cur, got, ctxDone, apc>>
    /\ UNCHANGED cfgVars
    /\ UNCHANGED lowered
    /\ UNCHANGED sinkVars
    /\ UNCHANGED schemaVars
    /\ UNCHANGED stmtVars

\* Put, line 217: a send on a closed channel (closed before or while the sender
\* waits) panics.
PutPanic(c) ==
    /\ pc[c] = "put_send"
    /\ putCh[c] \in chClosed
    /\ pc' = [pc EXCEPT ![c] = "panic"]
    /\ putCh' = [putCh EXCEPT ![c] = Nil]
    /\ UNCHANGED <<cur, got, ctxDone, apc>>
    /\ UNCHANGED poolVars
    /\ UNCHANGED cfgVars
    /\ UNCHANGED waiterVars
    /\ UNCHANGED lowered
    /\ UNCHANGED sinkVars
    /\ UNCHANGED schemaVars
    /\ UNCHANGED stmtVars

\* The ctx.Done() case of the select returning without the call of put.
WaitCtxNoPut(c) ==
    /\ wpc[c] = "select"
    /\ ctxDone[c]
    /\ wpc' = [wpc EXCEPT ![c] = "finished"]
    /\ wg' = wg - 1
    /\ UNCHANGED <<max, n, idle, handle, connC, chClosed, poolDone>>
    /\ UNCHANGED <<wn, nreclaim, ctxDone, apc>>
    /\ UNCHANGED cfgVars
    /\ UNCHANGED callerVars
    /\ UNCHANGED lowered
    /\ UNCHANGED sinkVars
    /\ UNCHANGED schemaVars
    /\ UNCHANGED stmtVars

\* The background goroutine of Get, lines 201-202: <-ctx.Done() is ready; put.
WaitCtx(c) ==
    /\ wpc[c] = "select"
    /\ ctxDone[c]
    /\ putClose(c)
    /\ UNCHANGED <<ctxDone, apc>>
    /\ UNCHANGED cfgVars
    /\ UNCHANGED callerVars
    /\ UNCHANGED lowered
    /\ UNCHANGED sinkVars
    /\ UNCHANGED schemaVars
    /\ UNCHANGED stmtVars

\* The background goroutine of Get, lines 205-206: <-p.ctx.Done() is ready; put.
WaitShutdown(c) ==
    /\ wpc[c] = "select"
    /\ poolDone
    /\ putClose(c)
    /\ UNCHANGED <<ctxDone, apc>>
    /\ UNCHANGED cfgVars
    /\ UNCHANGED callerVars
    /\ UNCHANGED lowered
    /\ UNCHANGED sinkVars
    /\ UNCHANGED schemaVars
    /\ UNCHANGED stmtVars

\* put passing line 301 without the decrement of the count.
putAddSkip(c) ==
    /\ wpc[c] = "put_add"
    /\ wn' = [wn EXCEPT ![c] = n]
    /\ wpc' = [wpc EXCEPT ![c] = "put_max"]
    /\ UNCHANGED <<max, n, idle, handle, connC, chClosed, poolDone, wg>>
    /\ UNCHANGED <<nreclaim, ctxDone, apc>>
    /\ UNCHANGED cfgVars
    /\ UNCHANGED callerVars
    /\ UNCHANGED lowered
    /\ UNCHANGED sinkVars
    /\ UNCHANGED schemaVars
    /\ UNCHANGED stmtVars

\* put, line 301: n := atomic.AddInt32(&p.n, -1).
putAdd(c) ==
    /\ wpc[c] = "put_add"
    /\ n' = n - 1
    /\ wn' = [wn EXCEPT ![c] = n - 1]
    /\ wpc' = [wpc EXCEPT ![c] = "put_max"]
    /\ UNCHANGED <<max, idle, handle, connC, chClosed, poolDone, wg>>
    /\ UNCHANGED <<nreclaim, ctxDone, apc>>
    /\ UNCHANGED cfgVars
    /\ UNCHANGED callerVars
    /\ UNCHANGED lowered
    /\ UNCHANGED sinkVars
    /\ UNCHANGED schemaVars
    /\ UNCHANGED stmtVars

\* The comparison of put against the configured default, with no load of the
\* maximum.
WithinDefault(c) == wn[c] < DefaultMax

\* The comparison of put inverted (n >= Max keeps the connection).
WithinInverted(c) == wn[c] >= max

\* put, line 302: the comparison n < p.Max() on the maximum loaded now.
Within(c) == wn[c] < Max

\* put, lines 302-306: load p.Max(); p.Pool.Put(conn) when within it, else
\* conn.Close(); then the deferred p.WaitGroup.Done() of the goroutine (line 199).
putRelease(c) ==
    /\ wpc[c] = "put_max"
    /\ IF Within(c)
       THEN /\ idle' = idle \cup {got[c]}
            /\ UNCHANGED handle
       ELSE /\ handle' = [handle EXCEPT ![got[c]] = "closed"]
            /\ UNCHANGED idle
    /\ wg' = wg - 1
    /\ wn' = [wn EXCEPT ![c] = 0]
    /\ wpc' = [wpc EXCEPT ![c] = "finished"]
    /\ UNCHANGED <<max, n, connC, chClosed, poolDone>>
    /\ UNCHANGED <<nreclaim, ctxDone, apc>>
    /\ UNCHANGED cfgVars
    /\ UNCHANGED callerVars
    /\ UNCHANGED lowered
    /\ UNCHANGED sinkVars
    /\ UNCHANGED schemaVars
    /\ UNCHANGED stmtVars

\* put, lines 302-306, when conn.Close() returns an error: the error is passed
\* to p.err.  Whether the failed Close released the handle is the engine's choice.
putCloseErr(c) ==
    /\ wpc[c] = "put_max"
    /\ ~Within(c)
    /\ \E h \in {"open", "closed"} : handle' = [handle EXCEPT ![got[c]] = h]
    /\ err
    /\ wg' = wg - 1
    /\ wn' = [wn EXCEPT ![c] = 0]
    /\ wpc' = [wpc EXCEPT ![c] = "finished"]
    /\ UNCHANGED <<max, n, idle, connC, chClosed, poolDone>>
    /\ UNCHANGED <<nreclaim, ctxDone, apc>>
    /\ UNCHANGED cfgVars
    /\ UNCHANGED callerVars
    /\ UNCHANGED lowered
    /\ UNCHANGED schemaVars
    /\ UNCHANGED stmtVars

\* Close, line 132: p.SetMax(0).
CloseSetMax ==
    /\ phase = "open"
    /\ apc = "start"
    /\ max' = maxInt32(0, 0)
    /\ apc' = "close_cancel"
    /\ UNCHANGED <<n, idle, handle, connC, chClosed, poolDone, wg, ctxDone>>
    /\ UNCHANGED cfgVars
    /\ UNCHANGED callerVars
    /\ UNCHANGED waiterVars
    /\ UNCHANGED lowered
    /\ UNCHANGED sinkVars
    /\ UNCHANGED schemaVars
    /\ UNCHANGED stmtVars

\* Close, line 133: p.cancel().
CloseCancel ==
    /\ apc = "close_cancel"
    /\ poolDone' = TRUE
    /\ apc' = "close_wait"
    /\ UNCHANGED <<max, n, idle, handle, connC, chClosed, wg, ctxDone>>
    /\ UNCHANGED cfgVars
    /\ UNCHANGED callerVars
    /\ UNCHANGED waiterVars
    /\ UNCHANGED lowered
    /\ UNCHANGED sinkVars
    /\ UNCHANGED schemaVars
    /\ UNCHANGED stmtVars

\* Close returning without p.Wait().
CloseNoWait ==
    /\ apc = "close_wait"
    /\ apc' = "closed"
    /\ UNCHANGED ctxDone
    /\ UNCHANGED poolVars
    /\ UNCHANGED cfgVars
    /\ UNCHANGED callerVars
    /\ UNCHANGED waiterVars
    /\ UNCHANGED lowered
    /\ UNCHANGED sinkVars
    /\ UNCHANGED schemaVars
    /\ UNCHANGED stmtVars

\* Close, lines 134-137: p.Wait() returns when the WaitGroup counter is zero;
\* Close returns.
CloseWait ==
    /\ apc = "close_wait"
    /\ wg = 0
    /\ apc' = "closed"
    /\ UNCHANGED ctxDone
    /\ UNCHANGED poolVars
    /\ UNCHANGED cfgVars
    /\ UNCHANGED callerVars
    /\ UNCHANGED waiterVars
    /\ UNCHANGED lowered
    /\ UNCHANGED sinkVars
    /\ UNCHANGED schemaVars
    /\ UNCHANGED stmtVars

\* The runtime empties the sync.Pool at a garbage collection: a connection it
\* held is dropped, its handle still open.
PoolDrop(k) ==
    /\ k \in idle
    /\ idle' = idle \ {k}
    /\ UNCHANGED <<max, n, handle, connC, chClosed, poolDone, wg, ctxDone, apc>>
    /\ UNCHANGED cfgVars
    /\ UNCHANGED callerVars
    /\ UNCHANGED waiterVars
    /\ UNCHANGED lowered
    /\ UNCHANGED sinkVars
    /\ UNCHANGED schemaVars
    /\ UNCHANGED stmtVars

\* c.Conn.Prepare(q): the engine compiles the first statement of q and returns
\* its handle and the text that follows it (after the separator); a statement
\* that does not compile is an error.
ConnPrepare(q) ==
    LET rest == IF Len(q) >= 2 /\ q[2] = ";" THEN SubSeq(q, 3, Len(q)) ELSE Tail(q) IN
    IF Head(q) \in BadTokens
    THEN [st |-> "", extra |-> <<>>, err |-> TRUE]
    ELSE [st |-> Head(q), extra |-> rest, err |-> FALSE]

\* The loop of Prepare that compiles the first statement only.
prepareOnce(q) ==
    IF q = <<>> THEN [st |-> <<>>, err |-> FALSE]
    ELSE LET r == ConnPrepare(q) IN
         [st |-> IF r.err THEN <<>> ELSE <<r.st>>, err |-> r.err]

\* Prepare, lines 27-37: the loop that compiles q statement by statement.  st
\* is s.st when the loop ends, by break or by the return of the error.
RECURSIVE prepare(_)
prepare(q) ==
    IF q = <<>> THEN [st |-> <<>>, err |-> FALSE]
    ELSE LET r == ConnPrepare(q) IN
         IF r.err THEN [st |-> <<>>, err |-> TRUE]
         ELSE LET next == prepare(TrimSpace(r.extra)) IN
              [st |-> <<r.st>> \o next.st, err |-> next.err]

\* ConnEx.Prepare, lines 25-49.  On an error it returns nil and the error; the
\* handles compiled before stay as the engine left them.
ConnExPrepare ==
    /\ spc = "start"
    /\ LET r == prepare(text) IN
       /\ hst' = [h \in Handles |->
                    IF \E i \in 1..Len(r.st) : r.st[i] = h THEN "open" ELSE hst[h]]
       /\ IF r.err
          THEN /\ spc' = "failed"
               /\ st' = <<>>
               /\ ret' = [op |-> "Prepare", n |-> 0, cursor |-> FALSE, err |-> "error"]
          ELSE /\ spc' = "prepared"
               /\ st' = r.st
               /\ ret' = [op |-> "Prepare", n |-> 0, cursor |-> FALSE, err |-> "nil"]
    /\ UNCHANGED <<text, lastOps, nfin, closeErr>>
    /\ UNCHANGED userVars
    /\ UNCHANGED cursorVars
    /\ UNCHANGED bindVars
    /\ UNCHANGED hbind
    /\ UNCHANGED wordVars
    /\ UNCHANGED txnVars
    /\ UNCHANGED poolSide

\* A call on a statement handle and its outcome.
StOp(op, h, res) == [op |-> op, h |-> h, res |-> res]

\* What the engine answers to the calls of one Exec: Reset and Bind succeed
\* or fail, Step ends in a row, in done or in an error.
ExecOutcomes == [reset : BOOLEAN, bind : BOOLEAN, step : {"row", "done", "error"}]

\* Exec, line 78: n >= uint(len(s.st)).
OutOfRange(i) == i >= Len(st)

\* Exec without the test of the error of Bind.
BindFailsIgnored(args, out) == FALSE

\* Exec, lines 89-93: values are given and st.Bind(v...) returns an error.
BindFails(args, out) == args /\ ~out.bind

\* An Exec that returns a cursor only when Step ended in a row.
RowOnly(res) == res = "row"

\* Exec, line 95: errors.Is(err, SQLITE_DONE) || errors.Is(err, SQLITE_ROW).
DoneOrRow(res) == res \in {"row", "done"}

\* results(st, err), called at line 96: the cursor over handle h whose latest
\* step ended in res, no row read yet.
results(h, res) == [st |-> h, err |-> res, n |-> 0]

\* An Exec that binds whether or not values are given.
HasValuesAlways(args) == TRUE

\* Exec, line 89: len(v) > 0.
HasValues(args) == args

\* The bindings of a handle after Reset: Reset leaves them as they are.
AfterReset(b) == b

\* The bindings a handle can have after Bind(v...) on bindings b: the values
\* given when it succeeds; when it fails, some of them may have been bound.
AfterBind(b, ok) == IF ok THEN {1} ELSE {b, 1}

\* StatementEx.Exec, lines 73-101, with n the index, args whether values are
\* given (len(v) > 0) and out the engine's answers.
StatementExExec(i, args, out) ==
    /\ spc \in {"prepared", "closed"}
    /\ nextRet' = "unread"
    /\ IF OutOfRange(i)
       THEN /\ lastOps' = <<>>
            /\ ret' = [op |-> "Exec", n |-> i, cursor |-> FALSE, err |-> "SQLITE_DONE"]
            /\ rs' = NoResults
            /\ UNCHANGED hbind
       ELSE LET h == st[i + 1]
                reset == <<StOp("reset", h, IF out.reset THEN "ok" ELSE "error")>>
                bind == IF HasValues(args)
                        THEN <<StOp("bind", h, IF out.bind THEN "ok" ELSE "error")>>
                        ELSE <<>>
                step == <<StOp("step", h, out.step)>>
            IN  /\ IF out.reset /\ HasValues(args)
                   THEN \E b \in AfterBind(AfterReset(hbind[h]), out.bind) :
                           hbind' = [hbind EXCEPT ![h] = b]
                   ELSE hbind' = [hbind EXCEPT ![h] = AfterReset(@)]
                /\ IF ~out.reset
                   THEN /\ lastOps' = reset
                        /\ ret' = [op |-> "Exec", n |-> i, cursor |-> FALSE, err |-> "error"]
                        /\ rs' = NoResults
                   ELSE IF BindFails(args, out)
                   THEN /\ lastOps' = reset \o bind
                        /\ ret' = [op |-> "Exec", n |-> i, cursor |-> FALSE, err |-> "error"]
                        /\ rs' = NoResults
                   ELSE /\ lastOps' = reset \o bind \o step
                        /\ ret' = IF DoneOrRow(out.step)
                                  THEN [op |-> "Exec", n |-> i, cursor |-> TRUE, err |-> "nil"]
                                  ELSE [op |-> "Exec", n |-> i, cursor |-> FALSE, err |-> "error"]
                        /\ rs' = IF DoneOrRow(out.step) THEN results(h, out.step) ELSE NoResults
    /\ UNCHANGED <<text, spc, st, hst, nfin, closeErr>>
    /\ UNCHANGED userVars
    /\ UNCHANGED bindVars
    /\ UNCHANGED wordVars
    /\ UNCHANGED txnVars
    /\ UNCHANGED poolSide

\* The loop of Close that ends at the first Finalize that fails.
RECURSIVE finalizeUntilError(_, _)
finalizeUntilError(hs, fails) ==
    IF hs = <<>> THEN <<>>
    ELSE IF Head(hs) \in fails THEN <<StOp("finalize", Head(hs), "error")>>
    ELSE <<StOp("finalize", Head(hs), "ok")>> \o finalizeUntilError(Tail(hs), fails)

\* Close, lines 57-62: the calls of Finalize on the handles hs, in order; fails
\* are the handles whose Finalize returns an error.
RECURSIVE finalizeAll(_, _)
finalizeAll(hs, fails) ==
    IF hs = <<>> THEN <<>>
    ELSE <<StOp("finalize", Head(hs), IF Head(hs) \in fails THEN "error" ELSE "ok")>>
         \o finalizeAll(Tail(hs), fails)

\* The number of calls in ops on handle h.
CallsOn(ops, h) == Cardinality({j \in 1..Len(ops) : ops[j].h = h})

\* Close, lines 59-61: the errors appended to result, by handle.
RECURSIVE Errors(_)
Errors(ops) ==
    IF ops = <<>> THEN <<>>
    ELSE (IF Head(ops).res = "error" THEN <<Head(ops).h>> ELSE <<>>) \o Errors(Tail(ops))

\* Close without s.st = nil.
clearKeep(hs) == hs

\* Close, line 65: s.st = nil.
clear(hs) == <<>>

\* StatementEx.Close, lines 52-69: Finalize every handle of s.st, collect the
\* errors, s.st = nil.  A handle is released by its Finalize, also when the
\* call returns an error.
StatementExClose ==
    /\ spc \in {"prepared", "closed"}
    /\ \E fails \in SUBSET {st[i] : i \in 1..Len(st)} :
          LET ops == finalizeAll(st, fails) IN
          /\ lastOps' = ops
          /\ hst' = [h \in Handles |-> IF CallsOn(ops, h) > 0 THEN "finalized" ELSE hst[h]]
          /\ hbind' = [h \in Handles |-> IF CallsOn(ops, h) > 0 THEN 0 ELSE hbind[h]]
          /\ nfin' = [h \in Handles |-> nfin[h] + CallsOn(ops, h)]
          /\ closeErr' = Errors(ops)
          /\ ret' = [op |-> "Close", n |-> 0, cursor |-> FALSE,
                     err |-> IF Errors(ops) = <<>> THEN "nil" ELSE "error"]
    /\ st' = clear(st)
    /\ spc' = "closed"
    /\ UNCHANGED text
    /\ UNCHANGED userVars
    /\ UNCHANGED cursorVars
    /\ UNCHANGED bindVars
    /\ UNCHANGED wordVars
    /\ UNCHANGED txnVars
    /\ UNCHANGED poolSide

\* The finalizer set by Prepare, lines 41-45, run by the runtime once the
\* StatementEx is unreachable: it panics, naming the caller of Prepare, when
\* s.st is not nil.  The handles stay as they are.
Finalizer ==
    /\ spc \in {"prepared", "closed"}
    /\ spc' = IF st # <<>> THEN "reported" ELSE "collected"
    /\ UNCHANGED <<text, st, hst, lastOps, ret, nfin, closeErr>>
    /\ UNCHANGED userVars
    /\ UNCHANGED cursorVars
    /\ UNCHANGED bindVars
    /\ UNCHANGED hbind
    /\ UNCHANGED wordVars
    /\ UNCHANGED txnVars
    /\ UNCHANGED poolSide

\* to_values, lines 104-121: the type switch on one argument; the type of
\* the value stored for it, or "unsupported" for the default case.
ValueType(t) ==
    IF t \in {"int", "int8", "int16", "int32"} THEN "int64"
    ELSE IF t \in {"float64", "float32"} THEN "float64"
    ELSE IF t \in {"string", "int64", "time.Time", "bool", "nil", "[]byte"} THEN t
    ELSE "unsupported"

\* to_values, lines 102-126: the loop over args from position i on, with v the
\* values stored so far; it returns at the first unsupported argument.
RECURSIVE to_values_from(_, _, _)
to_values_from(args, i, v) ==
    IF i > Len(args) THEN [called |-> TRUE, v |-> v, err |-> "nil"]
    ELSE IF ValueType(args[i].t) = "unsupported"
    THEN [called |-> TRUE, v |-> <<>>, err |-> "Unsupported bind type"]
    ELSE to_values_from(args, i + 1, Append(v, [t |-> ValueType(args[i].t), v |-> args[i].v]))

\* to_values, lines 101-127.
to_values(args) == to_values_from(args, 1, <<>>)

\* A call of to_values(args).
ToValues ==
    /\ ~bvals.called
    /\ bvals' = to_values(bargs)
    /\ UNCHANGED bargs
    /\ UNCHANGED <<text, spc, st, hst, lastOps, ret, nfin, closeErr>>
    /\ UNCHANGED userVars
    /\ UNCHANGED cursorVars
    /\ UNCHANGED hbind
    /\ UNCHANGED wordVars
    /\ UNCHANGED txnVars
    /\ UNCHANGED poolSide

\* The test this.conn == nil that never finds the connection nil.
ConnIsNilNever == FALSE

\* Destroy, line 40, Query, line 70, Exec, line 83: this.conn == nil.
ConnIsNil == tconn = "nil"

\* The statement-side state outside the txn.
txnFrame ==
    /\ UNCHANGED <<text, spc, st, hst, lastOps, ret, nfin, closeErr>>
    /\ UNCHANGED userVars
    /\ UNCHANGED cursorVars
    /\ UNCHANGED bindVars
    /\ UNCHANGED hbind
    /\ UNCHANGED wordVars
    /\ UNCHANGED poolSide

\* Destroy, lines 36-64: ErrInternalAppError when there is no connection; else
\* Close on every statement of st, Close on the connection unless the txn is an
\* inner one, conn = nil, st = nil, and the collected errors (fails: the
\* closes that return an error).
txnDestroy ==
    /\ IF ConnIsNil
       THEN /\ tret' = [op |-> "Destroy", err |-> "ErrInternalAppError"]
            /\ UNCHANGED <<tconn, tst, tclosed, tconnClosed, tdone>>
       ELSE \E fails \in SUBSET (TxnStmts \cup {0}) :
               /\ tclosed' = [s \in TxnStmts |->
                                 IF \E i \in 1..Len(tst) : tst[i] = s
                                 THEN tclosed[s] + 1 ELSE tclosed[s]]
               /\ tconnClosed' = IF tinner = FALSE THEN tconnClosed + 1 ELSE tconnClosed
               /\ tconn' = "nil"
               /\ tst' = <<>>
               /\ tdone' = TRUE
               /\ LET failed == {s \in fails : \/ \E i \in 1..Len(tst) : tst[i] = s
                                               \/ s = 0 /\ tinner = FALSE}
                  IN tret' = [op |-> "Destroy",
                              err |-> IF failed = {} THEN "nil" ELSE "multierror"]
    /\ UNCHANGED <<tinner, tuse>>
    /\ txnFrame

\* Query, lines 69-80: ErrInternalAppError when there is no connection; else
\* to_values(args), and when that succeeds conn.Query, which may fail.
txnQuery(args, ok) ==
    /\ (~ConnIsNil /\ to_values(args).err = "nil") => tuse < MaxTxnCalls
    /\ IF ConnIsNil
       THEN /\ tret' = [op |-> "Query", err |-> "ErrInternalAppError"]
            /\ UNCHANGED tuse
       ELSE IF to_values(args).err # "nil"
       THEN /\ tret' = [op |-> "Query", err |-> to_values(args).err]
            /\ UNCHANGED tuse
       ELSE /\ tuse' = tuse + 1
            /\ tret' = [op |-> "Query", err |-> IF ok THEN "nil" ELSE "engine"]
    /\ UNCHANGED <<tconn, tst, tinner, tclosed, tconnClosed, tdone>>
    /\ txnFrame

\* Exec, lines 82-95: ErrBadParameter when there is no connection; else
\* to_values(args), and when that succeeds conn.Exec, which may fail (as may
\* LastInsertId and RowsAffected after it).
txnExec(args, ok) ==
    /\ (~ConnIsNil /\ to_values(args).err = "nil") => tuse < MaxTxnCalls
    /\ IF ConnIsNil
       THEN /\ tret' = [op |-> "Exec", err |-> "ErrBadParameter"]
            /\ UNCHANGED tuse
       ELSE IF to_values(args).err # "nil"
       THEN /\ tret' = [op |-> "Exec", err |-> to_values(args).err]
            /\ UNCHANGED tuse
       ELSE /\ tuse' = tuse + 1
            /\ tret' = [op |-> "Exec", err |-> IF ok THEN "nil" ELSE "engine"]
    /\ UNCHANGED <<tconn, tst, tinner, tclosed, tconnClosed, tdone>>
    /\ txnFrame

\* QuoteIdentifier(value), line 207: goroutine g enters isReservedWord.
\* var once sync.Once declares a new Once in every call, so once.Do always
\* runs its function: the range loop over strings.Fields(reserved_words).
QuoteCall(g, value) ==
    /\ ~qfatal
    /\ qpc[g] = "idle"
    /\ qval' = [qval EXCEPT ![g] = value]
    /\ qfill' = [qfill EXCEPT ![g] = reserved_words]
    /\ qpc' = [qpc EXCEPT ![g] = "fill"]
    /\ UNCHANGED <<reservedWords, qret, qdone, qlate, qfatal>>
    /\ UNCHANGED <<text, spc, st, hst, lastOps, ret, nfin, closeErr>>
    /\ UNCHANGED userVars
    /\ UNCHANGED cursorVars
    /\ UNCHANGED bindVars
    /\ UNCHANGED hbind
    /\ UNCHANGED txnVars
    /\ UNCHANGED poolSide

\* Another goroutine is inside isReservedWord, between its first and its
\* last access to the map.
Racing(g) == \E o \in Quoters \ {g} : qpc[o] \in {"fill", "read"}

\* isReservedWord, lines 181-183: one iteration of the loop, the store
\* reservedWords[strings.ToUpper(word)] = true.  A store to a map that another
\* goroutine is reading or writing is a data race: the runtime may detect it
\* and stop the process, or the store goes through.
WordsStore(g) ==
    /\ ~qfatal
    /\ qpc[g] = "fill"
    /\ qfill[g] # <<>>
    /\ \E fatal \in (IF Racing(g) THEN BOOLEAN ELSE {FALSE}) :
          /\ qfatal' = fatal
          /\ reservedWords' = IF fatal THEN reservedWords
                              ELSE reservedWords \cup {Head(qfill[g])}
    /\ qfill' = [qfill EXCEPT ![g] = Tail(@)]
    /\ qlate' = (qlate \/ qdone)
    /\ UNCHANGED <<qpc, qval, qret, qdone>>
    /\ UNCHANGED <<text, spc, st, hst, lastOps, ret, nfin, closeErr>>
    /\ UNCHANGED userVars
    /\ UNCHANGED cursorVars
    /\ UNCHANGED bindVars
    /\ UNCHANGED hbind
    /\ UNCHANGED txnVars
    /\ UNCHANGED poolSide

\* isReservedWord, line 184: once.Do has returned.
WordsFilled(g) ==
    /\ ~qfatal
    /\ qpc[g] = "fill"
    /\ qfill[g] = <<>>
    /\ qpc' = [qpc EXCEPT ![g] = "read"]
    /\ UNCHANGED <<reservedWords, qfill, qval, qret, qdone, qlate, qfatal>>
    /\ UNCHANGED <<text, spc, st, hst, lastOps, ret, nfin, closeErr>>
    /\ UNCHANGED userVars
    /\ UNCHANGED cursorVars
    /\ UNCHANGED bindVars
    /\ UNCHANGED hbind
    /\ UNCHANGED txnVars
    /\ UNCHANGED poolSide

\* isReservedWord, lines 185-187: the lookup of the upper-cased, trimmed value
\* and the return.  A read of a map that another goroutine is writing is a
\* data race with the same outcomes.
WordsLookup(g) ==
    /\ ~qfatal
    /\ qpc[g] = "read"
    /\ \E fatal \in (IF \E o \in Quoters \ {g} : qpc[o] = "fill" THEN BOOLEAN ELSE {FALSE}) :
          /\ qfatal' = fatal
          /\ qret' = [qret EXCEPT ![g] = ~fatal /\ UpperTrim(qval[g]) \in reservedWords]
          /\ qdone' = (qdone \/ ~fatal)
          /\ qpc' = [qpc EXCEPT ![g] = IF fatal THEN "read" ELSE "idle"]
    /\ UNCHANGED <<reservedWords, qfill, qval, qlate>>
    /\ UNCHANGED <<text, spc, st, hst, lastOps, ret, nfin, closeErr>>
    /\ UNCHANGED userVars
    /\ UNCHANGED cursorVars
    /\ UNCHANGED bindVars
    /\ UNCHANGED hbind
    /\ UNCHANGED txnVars
    /\ UNCHANGED poolSide

\* One step of isReservedWord by goroutine g.
QuoteStep(g) ==
    \/ \E value \in Identifiers : QuoteCall(g, value)
    \/ WordsStore(g)
    \/ WordsFilled(g)
    \/ WordsLookup(g)

\* What Step can answer when Next advances a statement of which k rows have
\* been produced: a statement produces at most MaxRows rows.
StepOutcomes(k) == (IF k < MaxRows THEN {"row"} ELSE {}) \cup {"done", "error"}

\* Results.Next() without target types on the cursor r, with s the answer of
\* the engine if Next steps the statement: what Next returns and the cursor
\* after it. A row is pending: Next returns it and advances the statement.
\* The statement is exhausted: Next returns none (nil, nil). The step that
\* was to fetch this row failed: Next returns that error.
ResultsNext(r, s) ==
    IF r.err = "row" THEN [ret |-> "row", r |-> [r EXCEPT !.err = s, !.n = @ + 1]]
    ELSE IF r.err = "done" THEN [ret |-> "none", r |-> r]
    ELSE [ret |-> "error", r |-> r]

\* The caller is inside its read loop on the cursor of the latest Exec.
Reading == rs # NoResults /\ nextRet \in {"unread", "row"}

\* One iteration of the caller's read loop: row, err := r.Next(); break when
\* err != nil or row == nil.
ReadResults ==
    /\ spc = "prepared"
    /\ Reading
    /\ \E s \in StepOutcomes(rs.n + 1) :
          /\ nextRet' = ResultsNext(rs, s).ret
          /\ rs' = ResultsNext(rs, s).r
    /\ UNCHANGED <<text, spc, st, hst, lastOps, ret, nfin, closeErr>>
    /\ UNCHANGED userVars
    /\ UNCHANGED bindVars
    /\ UNCHANGED hbind
    /\ UNCHANGED wordVars
    /\ UNCHANGED txnVars
    /\ UNCHANGED poolSide

\* The caller of the read loop calls Exec only outside the loop.
CursorExec ==
    /\ ~Reading
    /\ \E i \in 0..MaxStmts, args \in BOOLEAN, out \in ExecOutcomes :
          StatementExExec(i, args, out)

\* Exec and Close step by step, as goroutine u runs them concurrently with
\* the others: the call, s.Mutex.Lock(), the body, the deferred s.Mutex.Unlock().
\* What the goroutines do with the cursors they get is not followed here.

\* Goroutine u calls Exec(n, v...) or Close() on the StatementEx. The
\* arguments of Exec are its own: they are drawn where Exec first reads them.
UserCall(u) ==
    /\ spc \in {"prepared", "closed"}
    /\ upc[u] = "idle"
    /\ \/ /\ ucall' = [ucall EXCEPT ![u] = [op |-> "Exec", n |-> 0]]
          /\ upc' = [upc EXCEPT ![u] = "exec_lock"]
       \/ /\ ucall' = [ucall EXCEPT ![u] = [op |-> "Close", n |-> 0]]
          /\ upc' = [upc EXCEPT ![u] = "close_lock"]
    /\ UNCHANGED <<text, spc, st, hst, lastOps, ret, nfin, closeErr, mu, uhs>>
    /\ UNCHANGED cursorVars
    /\ UNCHANGED bindVars
    /\ UNCHANGED hbind
    /\ UNCHANGED wordVars
    /\ UNCHANGED txnVars
    /\ UNCHANGED poolSide

\* A Lock that does not wait.
MutexFreeAlways == TRUE

\* sync.Mutex.Lock returns only when the mutex is unlocked.
MutexFree == mu = 0

\* Exec, line 74, and Close, line 53: s.Mutex.Lock().
UserLock(u) ==
    /\ upc[u] \in {"exec_lock", "close_lock"}
    /\ MutexFree
    /\ mu' = u
    /\ upc' = [upc EXCEPT ![u] = IF upc[u] = "exec_lock" THEN "exec_check" ELSE "close_range"]
    /\ UNCHANGED <<text, spc, st, hst, lastOps, ret, nfin, closeErr, ucall, uhs>>
    /\ UNCHANGED cursorVars
    /\ UNCHANGED bindVars
    /\ UNCHANGED hbind
    /\ UNCHANGED wordVars
    /\ UNCHANGED txnVars
    /\ UNCHANGED poolSide

\* Exec, lines 78-83, called with the index i: the test of the index;
\* st := s.st[int(n)].
ExecCheck(u, i) ==
    /\ upc[u] = "exec_check"
    /\ lastOps' = <<>>
    /\ ucall' = [ucall EXCEPT ![u].n = i]
    /\ IF OutOfRange(i)
       THEN /\ ret' = [op |-> "Exec", n |-> i, cursor |-> FALSE, err |-> "SQLITE_DONE"]
            /\ upc' = [upc EXCEPT ![u] = "unlock"]
            /\ UNCHANGED uhs
       ELSE /\ uhs' = [uhs EXCEPT ![u] = <<st[i + 1]>>]
            /\ upc' = [upc EXCEPT ![u] = "exec_reset"]
            /\ UNCHANGED ret
    /\ UNCHANGED <<text, spc, st, hst, nfin, closeErr, mu>>
    /\ UNCHANGED cursorVars
    /\ UNCHANGED bindVars
    /\ UNCHANGED hbind
    /\ UNCHANGED wordVars
    /\ UNCHANGED txnVars
    /\ UNCHANGED poolSide

\* Exec, lines 84-89, called with values (args) or without: st.Reset(), and
\* the test len(v) > 0.
ExecReset(u, ok, args) ==
    /\ upc[u] = "exec_reset"
    /\ lastOps' = Append(lastOps, StOp("reset", uhs[u][1], IF ok THEN "ok" ELSE "error"))
    /\ IF ok
       THEN /\ upc' = [upc EXCEPT ![u] = IF HasValues(args) THEN "exec_bind" ELSE "exec_step"]
            /\ UNCHANGED ret
       ELSE /\ upc' = [upc EXCEPT ![u] = "unlock"]
            /\ ret' = [op |-> "Exec", n |-> ucall[u].n, cursor |-> FALSE, err |-> "error"]
    /\ UNCHANGED <<text, spc, st, hst, nfin, closeErr, mu, ucall, uhs>>
    /\ UNCHANGED cursorVars
    /\ UNCHANGED bindVars
    /\ UNCHANGED hbind
    /\ UNCHANGED wordVars
    /\ UNCHANGED txnVars
    /\ UNCHANGED poolSide

\* Exec, lines 89-93: st.Bind(v...).
ExecBind(u, ok) ==
    /\ upc[u] = "exec_bind"
    /\ lastOps' = Append(lastOps, StOp("bind", uhs[u][1], IF ok THEN "ok" ELSE "error"))
    /\ \E b \in AfterBind(hbind[uhs[u][1]], ok) : hbind' = [hbind EXCEPT ![uhs[u][1]] = b]
    /\ IF ok
       THEN /\ upc' = [upc EXCEPT ![u] = "exec_step"]
            /\ UNCHANGED ret
       ELSE /\ upc' = [upc EXCEPT ![u] = "unlock"]
            /\ ret' = [op |-> "Exec", n |-> ucall[u].n, cursor |-> FALSE, err |-> "error"]
    /\ UNCHANGED <<text, spc, st, hst, nfin, closeErr, mu, ucall, uhs>>
    /\ UNCHANGED cursorVars
    /\ UNCHANGED bindVars
    /\ UNCHANGED wordVars
    /\ UNCHANGED txnVars
    /\ UNCHANGED poolSide

\* Exec, lines 96-100: st.Step() and the result.
ExecStep(u, res) ==
    /\ upc[u] = "exec_step"
    /\ lastOps' = Append(lastOps, StOp("step", uhs[u][1], res))
    /\ ret' = IF DoneOrRow(res)
              THEN [op |-> "Exec", n |-> ucall[u].n, cursor |-> TRUE, err |-> "nil"]
              ELSE [op |-> "Exec", n |-> ucall[u].n, cursor |-> FALSE, err |-> "error"]
    /\ upc' = [upc EXCEPT ![u] = "unlock"]
    /\ UNCHANGED <<text, spc, st, hst, nfin, closeErr, mu, ucall, uhs>>
    /\ UNCHANGED cursorVars
    /\ UNCHANGED bindVars
    /\ UNCHANGED hbind
    /\ UNCHANGED wordVars
    /\ UNCHANGED txnVars
    /\ UNCHANGED poolSide

\* Close, lines 57-58: var result error; range s.st evaluates s.st once.
CloseRange(u) ==
    /\ upc[u] = "close_range"
    /\ uhs' = [uhs EXCEPT ![u] = st]
    /\ lastOps' = <<>>
    /\ closeErr' = <<>>
    /\ upc' = [upc EXCEPT ![u] = "close_loop"]
    /\ UNCHANGED <<text, spc, st, hst, ret, nfin, mu, ucall>>
    /\ UNCHANGED cursorVars
    /\ UNCHANGED bindVars
    /\ UNCHANGED hbind
    /\ UNCHANGED wordVars
    /\ UNCHANGED txnVars
    /\ UNCHANGED poolSide

\* Close, lines 58-62: one iteration, st.Finalize() on the next handle.
CloseFinalize(u, ok) ==
    /\ upc[u] = "close_loop"
    /\ uhs[u] # <<>>
    /\ LET h == Head(uhs[u]) IN
       /\ hst' = [hst EXCEPT ![h] = "finalized"]
       /\ hbind' = [hbind EXCEPT ![h] = 0]
       /\ nfin' = [nfin EXCEPT ![h] = @ + 1]
       /\ lastOps' = Append(lastOps, StOp("finalize", h, IF ok THEN "ok" ELSE "error"))
       /\ closeErr' = IF ok THEN closeErr ELSE Append(closeErr, h)
    /\ uhs' = [uhs EXCEPT ![u] = Tail(@)]
    /\ UNCHANGED <<text, spc, st, ret, mu, upc, ucall>>
    /\ UNCHANGED cursorVars
    /\ UNCHANGED bindVars
    /\ UNCHANGED wordVars
    /\ UNCHANGED txnVars
    /\ UNCHANGED poolSide

\* Close, lines 65-68: s.st = nil; return result.
CloseClear(u) ==
    /\ upc[u] = "close_loop"
    /\ uhs[u] = <<>>
    /\ st' = clear(st)
    /\ spc' = "closed"
    /\ ret' = [op |-> "Close", n |-> 0, cursor |-> FALSE,
               err |-> IF closeErr = <<>> THEN "nil" ELSE "error"]
    /\ upc' = [upc EXCEPT ![u] = "unlock"]
    /\ UNCHANGED <<text, hst, lastOps, nfin, closeErr, mu, ucall, uhs>>
    /\ UNCHANGED cursorVars
    /\ UNCHANGED bindVars
    /\ UNCHANGED hbind
    /\ UNCHANGED wordVars
    /\ UNCHANGED txnVars
    /\ UNCHANGED poolSide

\* Exec, line 75, and Close, line 54: the deferred s.Mutex.Unlock().
UserUnlock(u) ==
    /\ upc[u] = "unlock"
    /\ mu' = 0
    /\ upc' = [upc EXCEPT ![u] = "idle"]
    /\ uhs' = [uhs EXCEPT ![u] = <<>>]
    /\ ucall' = [ucall EXCEPT ![u] = [op |-> "none", n |-> 0]]
    /\ UNCHANGED <<text, spc, st, hst, lastOps, ret, nfin, closeErr>>
    /\ UNCHANGED cursorVars
    /\ UNCHANGED bindVars
    /\ UNCHANGED hbind
    /\ UNCHANGED wordVars
    /\ UNCHANGED txnVars
    /\ UNCHANGED poolSide

\* One step of Exec or Close by goroutine u.
UserStep(u) ==
    \/ UserCall(u) \/ UserLock(u) \/ UserUnlock(u)
    \/ CloseRange(u) \/ CloseClear(u)
    \/ \E i \in 0..MaxStmts : ExecCheck(u, i)
    \/ \E ok \in BOOLEAN, args \in BOOLEAN : ExecReset(u, ok, args)
    \/ \E ok \in BOOLEAN : ExecBind(u, ok) \/ CloseFinalize(u, ok)
    \/ \E res \in {"row", "done", "error"} : ExecStep(u, res)

\* One step of Get by caller c.
GetStep(c) == GetLoadCur(c) \/ GetCheck(c) \/ GetTake(c) \/ GetSpawn(c)

\* One step of Put by caller c.
PutStep(c) == PutLoad(c) \/ PutSend(c)

\* One step of put in the background goroutine of lease c.
putStep(c) == putAdd(c) \/ putRelease(c)

\* One step of Close.
CloseStep == CloseSetMax \/ CloseCancel \/ CloseWait

\* Callers that only call Get and Put.
NextGetPut ==
    \/ OpenPool
    \/ \E c \in Callers : GetStep(c) \/ PutStep(c) \/ putStep(c)

\* Callers whose cancel-scopes may fire.
NextCancel ==
    \/ NextGetPut
    \/ \E c \in Callers : CtxCancel(c) \/ WaitCtx(c) \/ PutPanic(c)

\* Callers whose cancel-scopes may fire, and one call of Close.
NextClose ==
    \/ NextCancel
    \/ CloseStep
    \/ \E c \in Callers : WaitShutdown(c)

\* Every operation, with SetMax called at any time and the runtime free to empty
\* the sync.Pool.
Next ==
    \/ NextClose
    \/ \E v \in MaxArgs : SetMax(v)
    \/ \E k \in Conns : PoolDrop(k)

Spec == Init /\ [][Next]_vars
SpecGetPut == Init /\ [][NextGetPut]_vars
SpecCancel == Init /\ [][NextCancel]_vars
SpecClose == Init /\ [][NextClose]_vars

\* Callers that call Get and neither Put nor cancel, and one call of Close.
NextShutdown ==
    \/ OpenPool
    \/ CloseStep
    \/ \E c \in Callers : GetStep(c) \/ putStep(c) \/ WaitShutdown(c)

SpecShutdown == Init /\ [][NextShutdown]_vars

\* Callers that call Get and Put, with SetMax called at any time and one call of
\* Close.
NextAdmin ==
    \/ NextGetPut
    \/ CloseStep
    \/ \E c \in Callers : WaitShutdown(c)
    \/ \E v \in MaxArgs : SetMax(v)

SpecAdmin == Init /\ [][NextAdmin]_vars

\* Callers that call Get and Put, and SetMax called at any time.
NextResize ==
    \/ NextGetPut
    \/ \E v \in MaxArgs : SetMax(v)

SpecResize == Init /\ [][NextResize]_vars

\* Callers that call Get and Put on a pool opened with any errs, SetMax called
\* at any time, and the reader of errs.
NextSink ==
    \/ NextGetPut
    \/ \E v \in MaxArgs : SetMax(v)
    \/ SinkRecv

InitSink == InitPool /\ SinkAny /\ SchemasDefault /\ StmtNone

SpecSink == InitSink /\ [][NextSink]_vars

\* Every caller of p.err: Get on exhaustion, the sync.Pool's New when a
\* construction fails (an attach of the second schema fails), put when
\* conn.Close() fails; with the reader of errs.
NextReport ==
    \/ NextGetPut
    \/ SinkRecv
    \/ \E c \in Callers : putCloseErr(c)

\* Schemas with one schema to attach besides the default one.
SchemasTwo == schemas = [s \in {defaultSchema, <<"a", "b">>} |-> defaultMemory]

InitReport == InitPool /\ max = 1 /\ SinkAny /\ SchemasTwo /\ StmtNone

SpecReport == InitReport /\ [][NextReport]_vars

\* One ConnEx and the StatementEx its Prepare returns, used by one goroutine:
\* Prepare of any text, then Exec with any index and Close in any order, until
\* the goroutine drops the StatementEx and the runtime collects it.
NextStmt ==
    \/ ConnExPrepare
    \/ \E i \in 0..MaxStmts, args \in BOOLEAN, out \in ExecOutcomes :
          StatementExExec(i, args, out)
    \/ StatementExClose
    \/ Finalizer

InitStmt ==
    /\ InitPool /\ max = 0 /\ cfgValid /\ SinkNil /\ SchemasDefault
    /\ StmtAny

SpecStmt == InitStmt /\ [][NextStmt]_vars

\* One StatementEx shared by the goroutines of StmtUsers, which call Exec
\* and Close on it concurrently and repeatedly.
NextUsers ==
    \/ ConnExPrepare
    \/ \E u \in StmtUsers : UserStep(u)

SpecUsers == InitStmt /\ [][NextUsers]_vars

\* One caller that prepares a text, executes its statements and reads each
\* cursor to its end before the next Exec.
NextCursor ==
    \/ ConnExPrepare
    \/ CursorExec
    \/ ReadResults

SpecCursor == InitStmt /\ [][NextCursor]_vars

\* The caller's loop keeps calling Next until it breaks.
FairCursor == SpecCursor /\ WF_vars(ReadResults)

\* to_values applied to any argument list.
InitBind ==
    /\ InitPool
    /\ max = 0
    /\ cfgValid
    /\ SinkNil
    /\ SchemasDefault
    /\ StmtIdle
    /\ BindAny
    /\ WordsInit
    /\ TxnNone

SpecBind == InitBind /\ [][ToValues]_vars

\* Goroutines that call QuoteIdentifier concurrently and repeatedly.
NextWords == \E g \in Quoters : QuoteStep(g)

InitWords ==
    /\ InitPool /\ max = 0 /\ cfgValid /\ SinkNil /\ SchemasDefault
    /\ StmtNone

SpecWords == InitWords /\ [][NextWords]_vars

\* One txn on which Query, Exec and Destroy are called in any order, any
\* number of times.
NextTxn ==
    \/ txnDestroy
    \/ \E args \in TxnArgs, ok \in BOOLEAN : txnQuery(args, ok)
    \/ \E args \in TxnArgs, ok \in BOOLEAN : txnExec(args, ok)

InitTxn ==
    /\ InitPool /\ max = 0 /\ cfgValid /\ SinkNil /\ SchemasDefault
    /\ StmtIdle /\ BindNone /\ WordsInit
    /\ TxnAny

SpecTxn == InitTxn /\ [][NextTxn]_vars

\* Connection construction under any Schemas: OpenPool with the default
\* maximum and no channel for errors, then the Get of one caller.
NextNew ==
    \/ OpenPool
    \/ GetStep(1)

InitNew == InitPool /\ max = 0 /\ SinkNil /\ SchemasAny /\ StmtNone

SpecNew == InitNew /\ [][NextNew]_vars

\* The scheduler runs every goroutine that can run: a background goroutine whose
\* select has a ready case, a put under way, a send whose receiver is parked, and
\* the goroutine inside Close.
Fairness ==
    /\ \A c \in Callers : WF_vars(WaitCtx(c)) /\ WF_vars(WaitShutdown(c))
    /\ \A c \in Callers : WF_vars(PutSend(c)) /\ WF_vars(putStep(c))
    /\ WF_vars(CloseStep)

FairClose == SpecClose /\ Fairness
FairShutdown == SpecShutdown /\ Fairness

(***************************************************************************)
(* The claims.                                                             *)
(***************************************************************************)

\* A lease is granted by the step of Get that increments the count.
Grants(c) == pc[c] = "get_pool" /\ pc'[c] = "get_spawn"

\* C1: at the instant Get grants a lease, the count after the grant does not
\* exceed the maximum (callers that only Get and Put; nobody calls SetMax).
C1_GrantWithinMax == [][\A c \in Callers : Grants(c) => n' <= max']_vars

\* One of the three signals of lease c has fired while its goroutine is parked.
Signalled(c) ==
    \/ ctxDone[c]
    \/ poolDone
    \/ \E d \in Callers : pc[d] = "put_send" /\ putCh[d] = c

\* C2: put is entered at most once for every lease, a background goroutine that
\* has left its select has entered put exactly once, and once a signal of a
\* granted lease has fired its reclaim runs to the end.
C2_ReclaimedExactlyOnce ==
    /\ [](\A c \in Callers :
            /\ nreclaim[c] <= 1
            /\ wpc[c] \in {"put_add", "put_max", "finished"} => nreclaim[c] = 1)
    /\ \A c \in Callers : (wpc[c] = "select" /\ Signalled(c)) ~> (wpc[c] = "finished")

\* C2 witness: a lease whose three signals all fired (its Put returned, its scope
\* is cancelled, the pool is shut down) and that was reclaimed once.
C2_Witness ==
    \E c \in Callers :
        /\ pc[c] = "put_ret" /\ ctxDone[c] /\ poolDone
        /\ wpc[c] = "finished" /\ nreclaim[c] = 1

\* Caller c got a connection from Get and has not called Put.
Holds(c) == pc[c] = "user"

\* C3: no two callers hold the same connection at once.
C3_ExclusiveLease ==
    \A c, d \in Callers : (c # d /\ Holds(c) /\ Holds(d)) => got[c] # got[d]

\* Caller d is inside Get or has a connection whose Put has not returned.
Outstanding(d) == pc[d] \in {"get_check", "get_pool", "get_spawn", "user", "put_send"}

\* C4: Get returns none only when at least Max other callers are inside Get or
\* have a connection whose Put has not returned.
C4_GetNeverNone ==
    [][\A c \in Callers :
          (pc[c] = "get_check" /\ pc'[c] = "ret_none")
              => Cardinality({d \in Callers \ {c} : Outstanding(d)}) >= max]_vars

\* C5: a Get whose loaded count is at least the maximum it loads returns none in
\* that step, which is always enabled, and leaves the count, the idle store, the
\* connections, their channels, the WaitGroup and the background goroutines alone.
C5_ExhaustedGetRefuses ==
    /\ [](\A c \in Callers : pc[c] = "get_check" => ENABLED GetCheck(c))
    /\ [][\A c \in Callers :
            (pc[c] = "get_check" /\ cur[c] >= max /\ pc'[c] # pc[c])
                => /\ pc'[c] = "ret_none"
                   /\ got'[c] = None
                   /\ n' = n /\ idle' = idle /\ handle' = handle /\ connC' = connC
                   /\ wg' = wg /\ wpc' = wpc]_vars

\* C5 witness: a Get has returned none while the count is at the maximum, with a
\* lease outstanding.
C5_Witness == \E c \in Callers : pc[c] = "ret_none" /\ n >= max /\ n > 0

\* C6: after Close has returned the count is 0 (a Get that succeeds after Close
\* has returned takes the count to 1, so no later Get succeeds either).
C6_ClosedPoolEmpty == apc = "closed" => n = 0

C8_NoHandleOutlivesPool == apc = "closed" => \A k \in Conns : handle[k] # "open"

\* C9: a Put on a connection that is not leased never blocks forever (the send
\* on the nil channel of a connection that carries none), and a Put returns only
\* by releasing the caller's own lease.
C9_UnleasedPutIsLoud ==
    /\ [](\A c \in Callers : ~(pc[c] = "put_send" /\ putCh[c] = Nil))
    /\ [][\A c \in Callers :
            (pc[c] = "put_send" /\ pc'[c] = "put_ret") => putCh[c] = c]_vars

\* C10: when OpenPool succeeds the count is 0, the maximum is the configured one
\* (5 for 0, 1 for a negative one) and the idle store holds one open connection
\* that carries no channel; it succeeds for every valid configuration.
C10_OpenState ==
    /\ [][(phase = "init" /\ cfgValid) => phase' = "open"]_vars
    /\ [][(phase = "init" /\ phase' = "open")
             => /\ n' = 0
                /\ max' = (IF max = 0 THEN 5 ELSE IF max < 0 THEN 1 ELSE max)
                /\ Cardinality(idle') = 1
                /\ \A k \in idle' : handle'[k] = "open" /\ connC'[k] = Nil]_vars

\* C10 witness: a pool opened with a zero maximum, before any other operation.
C10_Witness ==
    /\ phase = "open" /\ max = 5 /\ n = 0 /\ Cardinality(idle) = 1
    /\ \A c \in Callers : pc[c] = "start"

\* C11: SetMax(v) sets the maximum to v, or to 0 when v is negative, and leaves
\* the count, the leases (each caller's position and connection), their
\* background goroutines, the number of reclaims, the idle store, the
\* connections and their channels as they are.
C11_SetMaxFrame ==
    [][\A v \in MaxArgs :
          SetMax(v) => /\ max' = (IF v < 0 THEN 0 ELSE v)
                       /\ n' = n /\ idle' = idle /\ handle' = handle
                       /\ connC' = connC /\ chClosed' = chClosed /\ wg' = wg
                       /\ pc' = pc /\ got' = got
                       /\ wpc' = wpc /\ nreclaim' = nreclaim]_vars

\* C11 witness: SetMax has set the maximum to 0 (OpenPool never does, Close has
\* not been called) below the count, and the lease is still parked, unreclaimed.
C11_Witness ==
    /\ phase = "open" /\ apc = "start" /\ max = 0 /\ n = 1
    /\ \E c \in Callers : pc[c] = "user" /\ wpc[c] = "select" /\ nreclaim[c] = 0

\* C12: after a SetMax that stored a maximum below the count, and until the
\* maximum is changed again, no Get is granted while the count is at or above
\* the maximum, and once the count is within the maximum it stays within it.
C12_LoweredMaxHolds ==
    [][lowered =>
          /\ \A c \in Callers : Grants(c) => n < max
          /\ (n <= max /\ max' = max) => n' <= max']_vars

Refuses(c) == pc[c] = "get_check" /\ pc'[c] = "ret_none"

\* C14 as stated: whenever Get refuses a lease, an error is delivered to the
\* diagnostic sink and none is returned to the caller.
C14_RefusalDelivered ==
    [][\A c \in Callers :
          Refuses(c) => delivered' = delivered + 1 /\ got'[c] = None]_vars

\* C14 amended: whenever Get refuses a lease, none is returned to the caller and
\* one error is offered to the diagnostic sink: when the sink is present and can
\* take it at that moment it is delivered (to the parked receiver, else into the
\* buffer), and otherwise it is dropped and the sink is left as it is.
C14_RefusalOffered ==
    [][\A c \in Callers :
          Refuses(c) =>
              /\ got'[c] = None
              /\ IF ~errsNil /\ (errsRecv \/ errsLen < errsCap)
                 THEN /\ delivered' = delivered + 1
                      /\ IF errsRecv
                         THEN ~errsRecv' /\ errsLen' = errsLen
                         ELSE errsLen' = errsLen + 1 /\ errsRecv' = errsRecv
                 ELSE /\ delivered' = delivered
                      /\ errsLen' = errsLen /\ errsRecv' = errsRecv]_vars

\* C14 witness: a Get was refused and its error was delivered into the buffer of
\* the sink.
C14_Witness ==
    \E c \in Callers : pc[c] = "ret_none" /\ delivered = 1 /\ errsLen >= 1

\* C18: when the default schema does not resolve to a path (it is missing from
\* Schemas, or mapped to the empty path), OpenPool fails with ErrNotFound,
\* returns no pool (no Get can start), and no connection is opened: no handle
\* exists and no call of the engine was made.
C18_OpenFailsWithoutDefault ==
    (phase # "init" /\ pathForSchema(defaultSchema) = "") =>
        /\ phase = "failed"
        /\ openErr = <<ErrNotFound(defaultSchema)>>
        /\ idle = {}
        /\ \A k \in Conns : handle[k] = "none" /\ connLog[k] = <<>>
        /\ \A c \in Callers : pc[c] = "start"

\* C18: OpenPool has failed on Schemas that do not map the default schema.
C18_Witness == phase = "failed" /\ defaultSchema \notin DOMAIN schemas /\ schemas # <<>>

\* The keys of Schemas that new treats as schemas to attach.
NonDefault == {s \in DOMAIN schemas : TrimSpace(s) # defaultSchema}
\* The entries of a construction's log that failed.
Failed(log) == {i \in 1..Len(log) : ~log[i].ok}

InvalidNames == {s \in NonDefault : s \in {<<"1", "b", "a", "d">>, <<"a">>}}

\* C17 (as stated): when a schema is rejected for its name, no call of the
\* engine has been made before in that construction.
C17_RejectedBeforeAnyEngineCall ==
    \A k \in Conns : \A i \in 1..Len(connLog[k]) :
       (connLog[k][i].op = "reject" /\ connLog[k][i].schema \in InvalidNames) =>
          \A j \in 1..(i - 1) : connLog[k][j].op = "reject"

\* C17 (amended): a schema whose name does not match is rejected with
\* ErrBadParameter naming it, with no call of the engine for that schema, and
\* the construction fails; the default schema has been opened before.
C17_RejectedWithoutEngineCall ==
    \A k \in Conns :
       (connLog[k] # <<>> /\ connLog[k][1].ok) =>
          \A s \in InvalidNames :
             /\ \A i \in 1..Len(connLog[k]) :
                   connLog[k][i].schema = TrimSpace(s) => connLog[k][i].op = "reject"
             /\ \E j \in 1..Len(connErr[k]) : connErr[k][j] = ErrBadParameter(TrimSpace(s))
             /\ k \notin idle /\ \A c \in Callers : got[c] # k
             /\ phase = "failed"

\* C17: "1bad" has been rejected in a construction after the default schema
\* was opened and another schema was attached.
C17_Witness ==
    \E k \in Conns :
       /\ Len(connLog[k]) = 3
       /\ connLog[k][1].op = "open" /\ connLog[k][2].op = "attach" /\ connLog[k][2].ok
       /\ connLog[k][3] = Rejected(<<"1", "b", "a", "d">>)

\* A step in which caller c's Get, the construction made for it, or the
\* reclaim of its lease passes an error to p.err.
ReportStep(c) ==
    \/ Refuses(c)
    \/ pc[c] = "get_pool" /\ pc'[c] = "panic" /\ connErr' # connErr
    \/ wpc[c] = "put_max" /\ wpc'[c] = "finished" /\ ~Within(c)

\* Some attach of a construction can fail.
CanFailAttach == \E oks \in Outcomes : \E s \in DOMAIN oks : ~oks[s]

\* C15: reporting an error never blocks.  Whatever the state of the sink (nil,
\* full, without a reader), the step that reports is enabled: the Get that
\* refuses returns nil, the construction that fails returns no connection, the
\* reclaim whose Close fails finishes.  And when the sink cannot take the
\* error, the step leaves the sink as it was: the error is dropped.
C15_ReportNeverBlocks ==
    /\ [](\A c \in Callers :
            /\ pc[c] = "get_check" => ENABLED GetCheck(c)
            /\ (pc[c] = "get_pool" /\ CanFailAttach) =>
                  ENABLED (GetTake(c) /\ pc'[c] = "panic" /\ got'[c] = None)
            /\ (wpc[c] = "put_max" /\ ~Within(c)) => ENABLED putCloseErr(c))
    /\ [][\A c \in Callers :
            (ReportStep(c) /\ ~errsReady) =>
               /\ UNCHANGED sinkVars
               /\ pc'[c] \in {"ret_none", "panic"} \/ wpc'[c] = "finished"]_vars

\* C15: with a sink that is a channel, full and without a reader, which has
\* taken no error, the construction made for a Get has failed and returned no
\* connection, while another caller holds a lease.
C15_Witness ==
    /\ ~errsNil /\ ~errsRecv /\ errsLen = errsCap /\ delivered = 0
    /\ \E c, d \in Callers :
          /\ pc[c] = "user"
          /\ pc[d] = "panic" /\ got[d] = None
          /\ \E k \in Conns : connErr[k] # <<>>

\* C19 (as stated): when Prepare has returned an error, no handle compiled
\* by that call is open.
C19_FailedPrepareLeavesNoHandle ==
    spc = "failed" => \A h \in Handles : hst[h] # "open"

\* The statements of a text, in the order of the source.
Statements(q) == SelectSeq(q, LAMBDA t : t \in Handles \cup BadTokens)

\* The calls on handles an Exec of handle h makes when the engine reports no
\* error: reset, bind when values are given, one step.
ExecOps(h) ==
    {<<StOp("reset", h, "ok"), StOp("step", h, r)>> : r \in {"row", "done"}}
    \cup {<<StOp("reset", h, "ok"), StOp("bind", h, "ok"), StOp("step", h, r)>> :
             r \in {"row", "done"}}

\* C20: a StatementEx prepared from a text of N statements holds N open
\* handles, the i-th one compiled from the i-th statement.  An Exec on it
\* with an index below N works on the handle of that index, and returns a
\* cursor and no error when the engine reports none; an Exec with an index
\* of N or more returns SQLITE_DONE and no cursor and has made no call on any
\* handle.
C20_HandlesInOrderExecInRange ==
    spc = "prepared" =>
       /\ st = Statements(text)
       /\ \A i \in 1..Len(st) : hst[st[i]] = "open"
       /\ ret.op = "Exec" =>
             IF ret.n >= Len(Statements(text))
             THEN ret.err = "SQLITE_DONE" /\ ~ret.cursor /\ lastOps = <<>>
             ELSE /\ lastOps # <<>>
                  /\ \A j \in 1..Len(lastOps) : lastOps[j].h = Statements(text)[ret.n + 1]
                  /\ lastOps \in ExecOps(lastOps[1].h) <=> (ret.cursor /\ ret.err = "nil")

\* C20: on a StatementEx of two statements, Exec(2) has returned SQLITE_DONE.
C20_Witness ==
    /\ spc = "prepared" /\ Len(st) = 2
    /\ ret = [op |-> "Exec", n |-> 2, cursor |-> FALSE, err |-> "SQLITE_DONE"]

\* The kinds of the calls of a log, in order.
OpKinds(ops) == [j \in 1..Len(ops) |-> ops[j].op]

\* C21: an Exec with an index in range calls Reset, then Bind only when
\* values are given, then Step once, in that order and on one handle.  A
\* call that fails is the last one: after a failed Reset or Bind the handle
\* is not stepped.  A cursor and no error are returned exactly when the step
\* ended in a row or in done; otherwise the error and no cursor.
C21_ExecResetBindStep ==
    /\ []((ret.op = "Exec" /\ lastOps # <<>>) =>
            /\ OpKinds(lastOps) \in {<<"reset">>, <<"reset", "bind">>,
                                     <<"reset", "step">>, <<"reset", "bind", "step">>}
            /\ \A j \in 1..Len(lastOps) :
                  /\ lastOps[j].h = lastOps[1].h
                  /\ lastOps[j].res \notin {"ok", "row", "done"} => j = Len(lastOps)
            /\ LET last == lastOps[Len(lastOps)] IN
               /\ last.op # "step" => last.res = "error"
               /\ ret.cursor <=> (last.op = "step" /\ last.res \in {"row", "done"})
               /\ ret.err = (IF ret.cursor THEN "nil" ELSE "error"))
    /\ [][\A i \in 0..MaxStmts, out \in ExecOutcomes :
            /\ StatementExExec(i, FALSE, out) =>
                  \A j \in 1..Len(lastOps') : lastOps'[j].op # "bind"
            /\ (StatementExExec(i, TRUE, out) /\ ~OutOfRange(i) /\ out.reset) =>
                  Len(lastOps') >= 2 /\ lastOps'[2].op = "bind"]_vars

\* C21: an Exec with values has returned the error of Bind and no cursor,
\* after Reset and Bind and without a Step.
C21_Witness ==
    /\ ret.op = "Exec" /\ ~ret.cursor /\ ret.err = "error"
    /\ OpKinds(lastOps) = <<"reset", "bind">>
    /\ lastOps[2].res = "error"

\* C22: the Close of a prepared StatementEx calls Finalize once on each of its
\* handles, in order, whatever the earlier calls returned; it returns the
\* failures together, one per failed call, and nil when there is none; and
\* s.st is empty afterwards.
C22_CloseFinalizesAll ==
    [][(spc = "prepared" /\ spc' = "closed") =>
          /\ Len(lastOps') = Len(st)
          /\ \A j \in 1..Len(st) : lastOps'[j].op = "finalize" /\ lastOps'[j].h = st[j]
          /\ \A h \in Handles :
                /\ nfin'[h] = (IF \E j \in 1..Len(st) : st[j] = h THEN 1 ELSE 0)
                /\ hst'[h] # "open"
          /\ Len(closeErr') = Cardinality({j \in 1..Len(lastOps') : lastOps'[j].res = "error"})
          /\ \A j \in 1..Len(lastOps') :
                lastOps'[j].res = "error" => \E e \in 1..Len(closeErr') : closeErr'[e] = lastOps'[j].h
          /\ ret'.op = "Close" /\ (ret'.err = "nil" <=> closeErr' = <<>>)
          /\ st' = <<>>]_vars

\* C22: a Close of two handles has finalized the second after the Finalize of
\* the first failed, and has returned the error.
C22_Witness ==
    /\ spc = "closed" /\ ret.op = "Close" /\ ret.err = "error"
    /\ Len(lastOps) = 2 /\ lastOps[1].res = "error" /\ lastOps[2].res = "ok"
    /\ closeErr = <<StmtToken(1)>> /\ st = <<>>
    /\ \A h \in Handles : nfin[h] = 1

\* C23: a Close of a StatementEx that is closed already can be made, returns
\* nil and calls Finalize on no handle; so no handle is ever finalized more
\* than once.
C23_CloseIdempotent ==
    /\ [](\A h \in Handles : nfin[h] <= 1)
    /\ [](spc = "closed" => ENABLED StatementExClose)
    /\ [][(spc = "closed" /\ StatementExClose) =>
             /\ lastOps' = <<>>
             /\ nfin' = nfin /\ hst' = hst /\ st' = <<>>
             /\ ret' = [op |-> "Close", n |-> 0, cursor |-> FALSE, err |-> "nil"]]_vars

\* C23: a second Close has returned on a StatementEx whose handles the first
\* Close finalized.
C23_Witness ==
    /\ spc = "closed" /\ ret.op = "Close" /\ lastOps = <<>>
    /\ \E h \in Handles : nfin[h] = 1 /\ hst[h] = "finalized"

\* C24 (as stated): an Exec on a StatementEx that has been closed is rejected
\* loudly: it returns no cursor, and not SQLITE_DONE, which is what an Exec
\* past the last statement of an open StatementEx returns.
C24_ExecAfterCloseIsLoud ==
    [][\A i \in 0..MaxStmts, args \in BOOLEAN, out \in ExecOutcomes :
          (spc = "closed" /\ StatementExExec(i, args, out)) =>
             ~ret'.cursor /\ ret'.err \notin {"nil", "SQLITE_DONE"}]_vars

\* C26 (as stated): when a StatementEx that Prepare returned is collected, it
\* is reported by a panic if Close was not called on it, and is not reported
\* if Close was called.
C26_UnclosedSetReported ==
    [][Finalizer =>
          /\ spc = "prepared" => spc' = "reported"
          /\ spc = "closed" => spc' = "collected"]_vars

\* Goroutine u is between its Lock and its Unlock: inside the section of
\* Exec (index test, reset, bind, step) or of Close (finalize, clear).
InSection(u) ==
    upc[u] \in {"exec_check", "exec_reset", "exec_bind", "exec_step",
                "close_range", "close_loop", "unlock"}

\* Goroutine u takes a step that resets, binds or steps its handle.
ExecTouches(u) ==
    \E ok \in BOOLEAN, args \in BOOLEAN, res \in {"row", "done", "error"} :
        ExecReset(u, ok, args) \/ ExecBind(u, ok) \/ ExecStep(u, res)

\* C25: under every interleaving of concurrent Exec and Close calls on one
\* StatementEx at most one call is inside its section, the mutex is held by
\* the call that is inside, and no handle is finalized while another call is
\* between the reset and the step of it: whatever Exec resets, binds or steps
\* is an open handle, and Close finalizes a handle only when no other call
\* holds it.
C25_ExecCloseSerialized ==
    /\ [](\A u, v \in StmtUsers : (InSection(u) /\ InSection(v)) => u = v)
    /\ [](\A u \in StmtUsers : InSection(u) => mu = u)
    /\ [][\A u \in StmtUsers : ExecTouches(u) => hst[uhs[u][1]] = "open"]_vars
    /\ [][\A u \in StmtUsers, ok \in BOOLEAN :
             CloseFinalize(u, ok) =>
                \A v \in StmtUsers \ {u} :
                    upc[v] \in {"exec_reset", "exec_bind", "exec_step"} =>
                       uhs[v][1] # Head(uhs[u])]_vars

\* C25 witness: one goroutine is about to step its handle inside Exec while
\* another has called Close and waits at its Lock.
C25_Witness ==
    \E u, v \in StmtUsers :
        /\ u # v
        /\ upc[u] = "exec_step" /\ mu = u
        /\ upc[v] = "close_lock"
        /\ uhs[u][1] \in {st[i] : i \in 1..Len(st)}

\* C27: for a cursor returned by a successful Exec the caller's read loop
\* ends; unless a step of the engine fails it ends with Next returning none.
\* Next on an exhausted statement returns none and no error, none is returned
\* only at exhaustion and an error only for a failed step; an Exec whose step
\* completes with no row returns a cursor, whose first Next returns none.
C27_ReadLoopEndsWithNone ==
    /\ (rs # NoResults /\ nextRet \in {"unread", "row"})
          ~> (nextRet = "none" \/ (nextRet = "error" /\ rs.err = "error"))
    /\ [][(ReadResults /\ rs.err = "done") => nextRet' = "none"]_vars
    /\ [](nextRet = "none" => rs.err = "done")
    /\ [](nextRet = "error" => rs.err = "error")
    /\ [][\A i \in 0..MaxStmts, args \in BOOLEAN, out \in ExecOutcomes :
             (/\ StatementExExec(i, args, out)
              /\ ~OutOfRange(i) /\ out.reset /\ (args => out.bind)
              /\ out.step = "done")
                => rs' = [st |-> st[i + 1], err |-> "done", n |-> 0]]_vars

\* C27 witness: the read loop on the cursor of a statement that completed
\* with no rows has ended with none.
C27_Witness ==
    /\ ret.op = "Exec" /\ ret.cursor
    /\ rs.n = 0 /\ rs.err = "done"
    /\ nextRet = "none"

\* The types the binding is to accept, and the storage each is to get.
ListedTypes == {"nil", "int", "int8", "int16", "int32", "int64",
                "uint", "uint8", "uint16", "uint32", "uint64",
                "float32", "float64", "string", "bool", "[]byte"}
ListedStorage(t) ==
    IF t = "nil" THEN "NULL"
    ELSE IF t \in {"float32", "float64"} THEN "FLOAT"
    ELSE IF t = "string" THEN "TEXT"
    ELSE IF t = "[]byte" THEN "BLOB"
    ELSE "INTEGER"

\* The storage the engine gives to a value that to_values returned.
StorageOf(t) ==
    IF t = "nil" THEN "NULL"
    ELSE IF t = "float64" THEN "FLOAT"
    ELSE IF t \in {"string", "time.Time"} THEN "TEXT"
    ELSE IF t = "[]byte" THEN "BLOB"
    ELSE "INTEGER"

\* C28: to_values returns a value for each argument that is null, an integer
\* of any signed or unsigned width, a float of any width, a string, a boolean
\* or raw bytes, of NULL, integer, floating, text, integer (0/1) and binary
\* storage respectively and with the argument's content, and returns an error
\* only when some argument is of another type.
C28_ToValuesAcceptsListedTypes ==
    bvals.called =>
        /\ (\A i \in 1..Len(bargs) : bargs[i].t \in ListedTypes) =>
              /\ bvals.err = "nil"
              /\ Len(bvals.v) = Len(bargs)
              /\ \A i \in 1..Len(bargs) :
                    /\ StorageOf(bvals.v[i].t) = ListedStorage(bargs[i].t)
                    /\ bvals.v[i].v = bargs[i].v
        /\ bvals.err # "nil" => \E i \in 1..Len(bargs) : bargs[i].t \notin ListedTypes

\* The reclaim of lease c makes its decrement / its comparison in this step.
Decrements(c) == wpc[c] = "put_add" /\ wpc'[c] = "put_max"
Classifies(c) == wpc[c] = "put_max" /\ wpc'[c] = "finished"

Leased(c) ==
    /\ pc[c] \in {"get_spawn", "user", "put_load", "put_send", "put_ret"}
    /\ wpc[c] \in {"none", "select"}

\* C30: a connection carries a channel exactly while it is leased. Every
\* leased connection has the channel of its lease, not closed, and a channel
\* on a connection belongs to a lease in progress; Get installs the channel
\* on a connection that has none; a reclaim begins by closing the channel and
\* clearing it, before the connection is put into the idle store or closed;
\* no connection in the idle store and no closed one carries a channel.
C30_ChannelExactlyWhileLeased ==
    /\ [](\A c \in Callers : Leased(c) =>
             connC[got[c]] = c /\ c \notin chClosed)
    /\ [](\A k \in Conns : connC[k] # Nil =>
             Leased(connC[k]) /\ got[connC[k]] = k)
    /\ [](\A k \in Conns : (k \in idle \/ handle[k] # "open") => connC[k] = Nil)
    /\ [][\A c \in Callers :
            (pc[c] = "get_pool" /\ pc'[c] = "get_spawn") =>
               /\ connC[got'[c]] = Nil
               /\ connC'[got'[c]] = c
               /\ \A k \in Conns \ {got'[c]} : connC'[k] # c]_vars
    /\ [][\A c \in Callers :
            (wpc[c] = "select" /\ wpc'[c] = "put_add") =>
               /\ connC[got[c]] \in chClosed'
               /\ connC'[got[c]] = Nil
               /\ got[c] \notin idle' /\ handle'[got[c]] = "open"]_vars
    /\ [][\A k \in Conns :
            (k \in idle' \ idle \/ (handle[k] = "open" /\ handle'[k] = "closed"))
               => connC[k] = Nil /\ connC'[k] = Nil]_vars

\* C30 witness: a connection that was leased, reclaimed into the idle store
\* and taken from it again carries the channel of its second lease.
C30_Witness ==
    \E c, d \in Callers :
        /\ c # d
        /\ got[c] = got[d]
        /\ wpc[c] = "finished"
        /\ Leased(d)
        /\ connC[got[d]] = d

\* The construction made for the Get of caller c fails in this step.
ConstructionFails(c) == pc[c] = "get_pool" /\ pc'[c] # "get_pool" /\ connErr' # connErr

\* C31 (as stated): when the construction of a connection fails during Get,
\* Get returns none without crashing, the error is sent to the sink when the
\* sink can take it, the count is unchanged and no background goroutine is
\* started.
C31_FailedConstructionReturnsNone ==
    [][\A c \in Callers :
          ConstructionFails(c) =>
             /\ pc'[c] = "ret_none"
             /\ got'[c] = None
             /\ n' = n /\ wg' = wg /\ wpc' = wpc
             /\ errsReady => delivered' = delivered + 1]_vars

\* C32: an Exec called without values calls no Bind, and leaves the bindings
\* of every handle as they were: the step runs with the bindings an earlier
\* Exec with values left on the handle (or with none, every parameter NULL).
C32_ExecWithoutValuesKeepsBindings ==
    [][\A i \in 0..MaxStmts, out \in ExecOutcomes :
          StatementExExec(i, FALSE, out) =>
             /\ hbind' = hbind
             /\ \A j \in 1..Len(lastOps') : lastOps'[j].op # "bind"
             /\ (~OutOfRange(i) /\ out.reset) =>
                   /\ lastOps'[Len(lastOps')] = StOp("step", st[i + 1], out.step)
                   /\ hbind'[st[i + 1]] = hbind[st[i + 1]]]_vars

\* C32 witness: an Exec without values has reset and stepped a handle that
\* still carries the values an earlier Exec bound.
C32_Witness ==
    /\ ret.op = "Exec"
    /\ OpKinds(lastOps) = <<"reset", "step">>
    /\ hbind[lastOps[1].h] = 1
    /\ hst[lastOps[1].h] = "open"

\* C33 (as stated): the reserved-word table is written only before the first
\* call of isReservedWord has returned; no later call, concurrent or not,
\* stores into it.
C33_TableWrittenOnce == ~qlate

\* C34 (as stated): a Put whose send completes ends the lease of the caller
\* that calls it: the channel it sends on is the channel of its own lease,
\* never the channel of a lease granted to another caller since.
C34_PutEndsOwnLeaseOnly ==
    [][\A c \in Callers : PutSend(c) => putCh[c] = c]_vars

\* C35 (as stated): a caller that calls Put once on the connection it obtained
\* from Get is never left in a send that cannot complete: the channel it loaded
\* is neither nil (the send blocks for ever) nor closed (the send panics).
C35_PutAlwaysReturns ==
    \A c \in Callers :
       pc[c] = "put_send" => putCh[c] # Nil /\ putCh[c] \notin chClosed

\* Lease c has been granted (Get has incremented the count for it) and its
\* reclaim has not yet decremented the count.
Counted(c) ==
    \/ pc[c] = "get_spawn"
    \/ wpc[c] \in {"select", "put_add", "panic"}

\* C36: the count is never negative and equals the number of leases granted
\* whose reclaim has not yet decremented it; it changes only by +1 in the step
\* of Get that grants a lease and by -1 in the decrement of a reclaim.
C36_CountIsOutstandingLeases ==
    /\ [](n >= 0 /\ n = Cardinality({c \in Callers : Counted(c)}))
    /\ [][n' # n => \E c \in Callers :
                       \/ Grants(c) /\ n' = n + 1
                       \/ Decrements(c) /\ n' = n - 1]_vars

\* C36 witness: two leases were granted; the reclaim of one has made its
\* decrement, the other is still parked, and the count is 1.
C36_Witness ==
    \E c, d \in Callers :
        /\ wpc[c] = "put_max" /\ wpc[d] = "select" /\ n = 1

\* The connections the pool owns that are open: those in the idle store and
\* those out on a lease (carrying a lease channel).
OwnedOpen == {k \in Conns : handle[k] = "open" /\ (k \in idle \/ connC[k] # Nil)}

\* Get constructs a connection for caller c in this step (the New function of
\* the sync.Pool runs p.new and the handle is opened).
Constructs(c) ==
    /\ pc[c] = "get_pool" /\ pc'[c] # "get_pool"
    /\ \E k \in Conns : handle[k] = "none" /\ handle'[k] = "open"

\* C37 (as stated): with the maximum left alone, the open connections the pool
\* owns (idle plus leased) never outnumber the maximum, and Get constructs a
\* connection only when the idle store is empty and the count is below the
\* maximum.
C37_OpenConnectionsWithinMax ==
    /\ [](phase = "open" => Cardinality(OwnedOpen) <= max)
    /\ [][\A c \in Callers : Constructs(c) => idle = {} /\ n < max]_vars

\* C38: once Destroy has run, the txn holds no connection and no statements;
\* every later Query and Exec returns its error (ErrInternalAppError,
\* ErrBadParameter) and a later Destroy returns ErrInternalAppError, none of
\* them reaching the connection or closing anything; no statement and no
\* connection is ever closed twice.
C38_DestroyedTxnIsInert ==
    /\ [](tdone => tconn = "nil" /\ tst = <<>>)
    /\ [](tconnClosed <= 1 /\ \A s \in TxnStmts : tclosed[s] <= 1)
    /\ [][tdone =>
            /\ tuse' = tuse /\ tclosed' = tclosed /\ tconnClosed' = tconnClosed
            /\ tconn' = tconn /\ tst' = tst
            /\ tret' \in {[op |-> "Query", err |-> "ErrInternalAppError"],
                          [op |-> "Exec", err |-> "ErrBadParameter"],
                          [op |-> "Destroy", err |-> "ErrInternalAppError"]}]_vars

\* C38 witness: Destroy has closed two statements and the connection of a txn
\* that was used before, and a second Destroy has returned its error.
C38_Witness ==
    /\ tdone /\ tuse > 0
    /\ tconnClosed = 1 /\ \A s \in TxnStmts : tclosed[s] = 1
    /\ tret = [op |-> "Destroy", err |-> "ErrInternalAppError"]

====
